---- MODULE Spec2Model ----
(***************************************************************************)
(* A model of the audio-samples dataset generator: the DataParameters      *)
(* template and its builder, the seeded per-index parameter sampling       *)
(* (DataPointParameters::new), the octave generator, the rendering of a     *)
(* datapoint and the Audio value object.                                    *)
(*                                                                         *)
(* Numbers.  A frequency, an amplitude, a sample, an effect power, a        *)
(* deviation or a map coordinate is an f32, held as the integer whose        *)
(* magnitude is the bit pattern of its absolute value and whose sign is its  *)
(* sign: these integers are ordered as the floats are, 0 is 0.0 and          *)
(* f32(One) is 1.0.  The f32 operations round to nearest, ties to even, as   *)
(* the hardware does; ln and exp compute as logf and expf of the C library   *)
(* do, in f64 from its tables.  Only 0 and the normal numbers occur.         *)
(* Decimal literals are written in units of 1e-6 (One) and converted by      *)
(* f32.  The other numbers are fixed-point integers:                         *)
(*   the phase of an oscillator, from the frequency to the nearest 1/16 Hz   *)
(*   probabilities                        in percent         (ProbOne = 1.0) *)
(* u64 values (seeds, hashes) are words of WordBits bits with the same       *)
(* wrap-around.  The generator Pcg64Mcg is a multiplicative congruential     *)
(* generator on a wider word; a draw yields one of RawSize raw values,       *)
(* which each sampler of rand maps to its outcome.  A generator state of     *)
(* Free stands for an arbitrary stream: every raw value is possible at       *)
(* every draw.                                                               *)
(***************************************************************************)
EXTENDS Integers, Sequences, FiniteSets, TLC

VARIABLES
    tpl,      \* the DataParameters template the caller holds (Panic once a builder call panicked)
    phase,    \* pc "build" while the builder may be called, "run" once generate was called;
              \* history: the last builder call, the template at the first generate
    seedArg,  \* history: the argument of the last with_seed_offset call, -1 if never called
    gen,      \* per caller (thread): the locals of its generate(index) and of the rendering
    oct,      \* one use of OctaveParameters: new(...), then generate_frequencies(...)
    aud,      \* one call of Audio::samples_from_module
    fx,       \* one datapoint's effects: sampled from the template's list, then applied
    fn        \* one use of a value object: a constructor call, then calls on the value

vars == <<tpl, phase, seedArg, gen, oct, aud, fx, fn>>

(***************************************************************************)
(* Scales and bounds                                                       *)
(***************************************************************************)
One == 1000 * 1000
Hz == 4 * 4
ProbOne == 10 * 10

\* width of the model's u64
WordBits == 4
\* number of distinct raw values of one draw of the generator
RawSize == 4
\* most oscillator slots / effects a template is given
MaxOscillators == 2
MaxEffects == 1
\* most effects in the effect lists that are sampled and applied on their own
MaxApplied == 2
\* largest datapoint index generated
MaxIndex == 2
\* largest num_samples asked of samples_from_module
MaxSamples == 3

Word == 2 ^ WordBits
RngMod == 8 * Word
RawDraws == 0 .. (RawSize - 1)
Free == 0 - 1

\* the panic of a failed assert!/unwrap/expect, as a value
Panic == [panic |-> TRUE]
IsPanic(v) == "panic" \in DOMAIN v

(***************************************************************************)
(* Arithmetic helpers                                                      *)
(***************************************************************************)
Abs(x) == IF x < 0 THEN -x ELSE x
Sign(x) == IF x < 0 THEN -1 ELSE 1

\* x * 2^k  (k may be negative), as f32 computes x * exp2(k) or x / exp2(-k)
Scale2(x, k) == IF k >= 0 THEN x * (2 ^ k) ELSE x \div (2 ^ (-k))

RECURSIVE SumSeq(_)
SumSeq(s) == IF Len(s) = 0 THEN 0 ELSE Head(s) + SumSeq(Tail(s))

InSeq(s, x) == \E k \in 1 .. Len(s) : s[k] = x

\* the position of the leading bit of x
RECURSIVE floor_log2(_)
floor_log2(x) == IF x < 2 THEN 0 ELSE 1 + floor_log2(x \div 2)

(***************************************************************************)
(* f32 arithmetic.  Exact intermediate values are non-negative fixed-point  *)
(* numbers <<i, a, b, c, d>> = i + a/2^14 + b/2^28 + c/2^42 + d/2^56, so    *)
(* that no product leaves 32 bits                                           *)
(***************************************************************************)
FixBase == 2 ^ 14
FixZero == <<0, 0, 0, 0, 0>>
FixOne == <<1, 0, 0, 0, 0>>

\* the carries and borrows of a limbwise sum, difference or multiple
FixNorm(x) ==
    LET c == x[4] + (x[5] \div FixBase)
        b == x[3] + (c \div FixBase)
        a == x[2] + (b \div FixBase)
    IN <<x[1] + (a \div FixBase), a % FixBase, b % FixBase, c % FixBase, x[5] % FixBase>>

FixAdd(x, y) == FixNorm([k \in 1 .. 5 |-> x[k] + y[k]])
\* x - y for x >= y
FixSub(x, y) == FixNorm([k \in 1 .. 5 |-> x[k] - y[k]])
FixLess(x, y) == \E k \in 1 .. 5 : x[k] < y[k] /\ \A j \in 1 .. (k - 1) : x[j] = y[j]
\* x * n for a small whole n
FixScale(x, n) == FixNorm([k \in 1 .. 5 |-> x[k] * n])

\* b more binary digits of the quotient l[1], from the remainder l[2]
FixDigits(l, d, b) == <<l[1] * b + ((l[2] * b) \div d), (l[2] * b) % d>>

\* the next 14 binary places of r / d and the remainder, for r < d <= 2^26
FixLimb(r, d) == FixDigits(FixDigits(FixDigits(<<0, r>>, d, 32), d, 32), d, 16)

\* the next n limbs of r / d, and the remainder after them
RECURSIVE FixLimbs(_, _, _)
FixLimbsAfter(l, d, n) ==
    CHOOSE limbs \in {<<next[1]>> \o FixLimbs(next[2], d, n - 1) : next \in {l}} : TRUE
FixLimbs(r, d, n) == IF n = 0 THEN <<r>> ELSE FixLimbsAfter(FixLimb(r, d), d, n)

\* a / d to 56 binary places, and whether places were dropped
FixQuotient(whole, limbs) == [fix |-> <<whole>> \o SubSeq(limbs, 1, 4), inexact |-> limbs[5] # 0]
FixRatio(a, d) == FixQuotient(a \div d, FixLimbs(a % d, d, 4))

\* the rounding of the 25 leading bits m25, the mantissa and the guard bit, to
\* the even mantissa when the rest is exactly the half; a value below the normal
\* numbers becomes 0
f32_round_even(sign, m25, rest, exponent) ==
    IF exponent < 1 THEN 0
    ELSE sign * ((exponent - 1) * (2 ^ 23) + (m25 \div 2)
                 + (IF (m25 % 2) = 1 /\ (rest \/ ((m25 \div 2) % 2) = 1) THEN 1 ELSE 0))

\* the leading limb top has `bits` bits and stands 14 * places below the units;
\* low holds the two limbs after it
f32_round_bits(sign, top, low, bits, rest, k) ==
    f32_round_even(sign, top * (2 ^ (25 - bits)) + (low \div (2 ^ (bits + 3))),
                   rest \/ (low % (2 ^ (bits + 3))) # 0, bits - 1 + k + 127)

f32_round_from(sign, y, p, k, inexact) ==
    f32_round_bits(sign, y[p], y[p + 1] * FixBase + y[p + 2], floor_log2(y[p]) + 1,
                   inexact \/ \E j \in (p + 3) .. 5 : y[j] # 0, k - 14 * (p - 1))

\* the f32 nearest to sign * x * 2^k, ties to the even mantissa; inexact says
\* that x was rounded down from the value meant
f32_round(sign, x, k, inexact) ==
    CHOOSE rounded \in
        {IF y = FixZero THEN 0
         ELSE f32_round_from(sign, y \o <<0, 0>>,
                             CHOOSE j \in 1 .. 5 : y[j] # 0 /\ \A i \in 1 .. (j - 1) : y[i] = 0,
                             k, inexact) :
         y \in {x}} : TRUE

\* the 24-bit mantissa m and the exponent e of v # 0: |v| = m * 2^e
f32_mantissa(v) == 2 ^ 23 + (Abs(v) % (2 ^ 23))
f32_exponent(v) == (Abs(v) \div (2 ^ 23)) - 150

\* m * s * 2^(14 u) / 2^56 for s < 2^14: the two halves of m in the limbs u and
\* u + 1 from the right
f32_fix_placed(m, u, s) ==
    FixNorm([j \in 1 .. 5 |->
                (IF u = 5 - j THEN (m % FixBase) * s ELSE 0)
                + (IF u + 1 = 5 - j THEN (m \div FixBase) * s ELSE 0)
                + (IF u = 4 /\ j = 1 THEN (m \div FixBase) * s * FixBase ELSE 0)])

f32_fix_shifted(m, t) ==
    IF t >= 0 THEN f32_fix_placed(m, t \div 14, 2 ^ (t % 14))
    ELSE IF -t > 24 THEN FixZero
    ELSE f32_fix_placed(m \div (2 ^ (-t)), 0, 1)

\* |v| as a fixed-point number: exact for |v| of 2^-33 and more, rounded down
\* below
f32_fix(v) ==
    IF v = 0 THEN FixZero ELSE f32_fix_shifted(f32_mantissa(v), f32_exponent(v) + 56)

\* the f32 nearest to the quotient q times 2^k
f32_round_ratio(q, k) ==
    CHOOSE rounded \in {f32_round(1, ratio.fix, k, ratio.inexact) : ratio \in {q}} : TRUE

\* the f32 nearest to x / d for whole x and 0 < d <= 2^26: a decimal literal
\* (d = One), a number of quarters (d = 4), a whole number (d = 1)
f32_ratio(x, d) == Sign(x) * f32_round_ratio(FixRatio(Abs(x), d), 0)

f32(x) == f32_ratio(x, One)

\* the whole number nearest to x
FixNearest(x) == x[1] + (IF 2 * x[2] >= FixBase THEN 1 ELSE 0)

\* the f32 v in units of 1 / (n1 * n2), to the nearest unit
f32_scaled(v, n1, n2) == Sign(v) * FixNearest(FixScale(FixScale(f32_fix(v), n1), n2))

\* an f32 in units of 1e-6
units(v) == f32_scaled(v, 1000, 1000)

\* sx * a + sy * b, rounded
f32_add_fix(sx, a, sy, b) ==
    f32_round(IF sx = sy \/ ~FixLess(a, b) THEN sx ELSE sy,
              IF sx = sy THEN FixAdd(a, b)
              ELSE IF FixLess(a, b) THEN FixSub(b, a) ELSE FixSub(a, b),
              0, FALSE)

\* x + y.  Here and below an operand that is used more than once is bound to
\* its value by a set constructor, whose only element is taken
f32_add(x, y) ==
    CHOOSE sum \in {f32_add_fix(Sign(a), f32_fix(a), Sign(b), f32_fix(b)) :
                     a \in {x}, b \in {y}} : TRUE

\* x - y
f32_sub(x, y) == f32_add(x, -y)

\* the product of two 24-bit mantissas, exact in three limbs
f32_mantissa_product(m1, m2) ==
    FixNorm(<<0, 0, (m1 \div FixBase) * (m2 \div FixBase),
              (m1 \div FixBase) * (m2 % FixBase) + (m1 % FixBase) * (m2 \div FixBase),
              (m1 % FixBase) * (m2 % FixBase)>>)

f32_round_product(p, k) == f32_round(1, <<p[3] + p[2] * FixBase, p[4], p[5], 0, 0>>, k, FALSE)

\* x * y
f32_mul(x, y) ==
    CHOOSE product \in
        {IF a = 0 \/ b = 0 THEN 0
         ELSE Sign(a) * Sign(b) *
              f32_round_product(f32_mantissa_product(f32_mantissa(a), f32_mantissa(b)),
                                28 + f32_exponent(a) + f32_exponent(b)) :
         a \in {x}, b \in {y}} : TRUE

\* a quotient by a divisor that is too large by one half
f32_div_damped(x, y) ==
    CHOOSE quotient \in
        {IF a = 0 THEN 0
         ELSE Sign(a) * Sign(b) *
              f32_round_ratio(FixRatio(f32_mantissa(a),
                                       f32_mantissa(f32_add(Abs(b), f32(One \div 2)))),
                              f32_exponent(a) - f32_exponent(f32_add(Abs(b), f32(One \div 2)))) :
         a \in {x}, b \in {y}} : TRUE

\* x / y for y # 0
f32_div(x, y) ==
    CHOOSE quotient \in
        {IF a = 0 THEN 0
         ELSE Sign(a) * Sign(b) *
              f32_round_ratio(FixRatio(f32_mantissa(a), f32_mantissa(b)),
                              f32_exponent(a) - f32_exponent(b)) :
         a \in {x}, b \in {y}} : TRUE

\* Iterator::sum::<f32>(): the elements added from the left
RECURSIVE f32_sum(_)
f32_sum(s) ==
    IF Len(s) = 0 THEN 0 ELSE f32_add(f32_sum(SubSeq(s, 1, Len(s) - 1)), s[Len(s)])

(***************************************************************************)
(* f64 arithmetic, in which the C library computes logf.  A natural number  *)
(* beyond 32 bits is the sequence of its limbs to base 2^14, the least      *)
(* significant first; an f64 is sign * man * 2^exp with man of 53 bits, or  *)
(* f64_zero                                                                 *)
(***************************************************************************)
BigLimb(s, k) == IF k \in 1 .. Len(s) THEN s[k] ELSE 0

\* the carries and borrows of limbs that left 0 .. 2^14 - 1
RECURSIVE BigCarry(_, _)
BigCarry(s, carry) ==
    CHOOSE limbs \in
        {IF Len(t) = 0
         THEN (IF c = 0 THEN <<>> ELSE <<c % FixBase>> \o BigCarry(t, c \div FixBase))
         ELSE <<(t[1] + c) % FixBase>> \o BigCarry(Tail(t), (t[1] + c) \div FixBase) :
         t \in {s}, c \in {carry}} : TRUE

BigLonger(a, b) == IF Len(a) >= Len(b) THEN Len(a) ELSE Len(b)
BigAdd(a, b) == BigCarry([k \in 1 .. BigLonger(a, b) |-> BigLimb(a, k) + BigLimb(b, k)], 0)
\* a - b for a >= b
BigSub(a, b) == BigCarry([k \in 1 .. BigLonger(a, b) |-> BigLimb(a, k) - BigLimb(b, k)], 0)

\* the sum of the products a[i] * b[k + 1 - i] from i on: column k of a * b
RECURSIVE BigColumn(_, _, _, _)
BigColumn(a, b, k, i) ==
    IF i > Len(a) THEN 0 ELSE BigLimb(a, i) * BigLimb(b, k + 1 - i) + BigColumn(a, b, k, i + 1)

BigMul(a, b) == BigCarry([k \in 1 .. (Len(a) + Len(b)) |-> BigColumn(a, b, k, 1)], 0)

\* the place of the highest limb that is not 0, 0 if there is none
RECURSIVE BigTop(_, _)
BigTop(s, k) == IF k = 0 THEN 0 ELSE IF s[k] # 0 THEN k ELSE BigTop(s, k - 1)

\* the number of bits of s
BigBits(s) ==
    CHOOSE bits \in
        {CHOOSE b \in {IF top = 0 THEN 0 ELSE 14 * (top - 1) + floor_log2(t[top]) + 1 :
                        top \in {BigTop(t, Len(t))}} : TRUE :
         t \in {s}} : TRUE

\* s * 2^n
BigShl(s, n) ==
    BigCarry([k \in 1 .. (Len(s) + (n \div 14)) |->
                 IF k <= n \div 14 THEN 0 ELSE s[k - (n \div 14)] * (2 ^ (n % 14))], 0)

\* s / 2^n, rounded down
BigShr(s, n) ==
    [k \in 1 .. (IF Len(s) > n \div 14 THEN Len(s) - (n \div 14) ELSE 0) |->
        (BigLimb(s, k + (n \div 14)) \div (2 ^ (n % 14)))
        + (BigLimb(s, k + (n \div 14) + 1) % (2 ^ (n % 14))) * (2 ^ (14 - (n % 14)))]

\* bit i of s, bit 0 the lowest
BigBit(s, i) == (BigLimb(s, (i \div 14) + 1) \div (2 ^ (i % 14))) % 2

\* the bits of s below bit n are all 0
BigLowZero(s, n) ==
    /\ \A k \in 1 .. (n \div 14) : BigLimb(s, k) = 0
    /\ BigLimb(s, (n \div 14) + 1) % (2 ^ (n % 14)) = 0

BigLess(a, b) ==
    \E k \in 1 .. BigLonger(a, b) :
        /\ BigLimb(a, k) < BigLimb(b, k)
        /\ \A j \in (k + 1) .. BigLonger(a, b) : BigLimb(a, j) = BigLimb(b, j)

f64_zero == [sign |-> 1, man |-> <<>>, exp |-> 0]

\* sign * q * 2^exp for the quotient q of `bits` bits or one more, after the
\* rounding
f64_rounded(sign, q, exp, bits) ==
    CHOOSE rounded \in
        {IF BigBits(m) > bits THEN [sign |-> sign, man |-> BigShr(m, 1), exp |-> exp + 1]
         ELSE [sign |-> sign, man |-> m, exp |-> exp] :
         m \in {q}} : TRUE

\* sign * n * 2^exp with the s lowest bits of n rounded away, to the nearest
\* and to the even mantissa from the middle
f64_round_away(sign, n, exp, bits, s) ==
    f64_rounded(sign,
                IF BigBit(n, s - 1) = 1 /\ (~BigLowZero(n, s - 1) \/ BigBit(n, s) = 1)
                THEN BigAdd(BigShr(n, s), <<1>>) ELSE BigShr(n, s),
                exp + s, bits)

\* sign * n * 2^exp to a mantissa of `bits` bits
f64_round_bits(sign, n, len, exp, bits) ==
    IF len = 0 THEN f64_zero
    ELSE IF len <= bits
    THEN [sign |-> sign, man |-> BigShl(n, bits - len), exp |-> exp - (bits - len)]
    ELSE f64_round_away(sign, n, exp, bits, len - bits)

f64_round_to(sign, n, exp, bits) ==
    CHOOSE rounded \in
        {CHOOSE r \in {f64_round_bits(sign, m, len, exp, bits) : len \in {BigBits(m)}} : TRUE :
         m \in {n}} : TRUE

f64_round(sign, n, exp) == f64_round_to(sign, n, exp, 53)

\* x * y
f64_mul(x, y) ==
    CHOOSE product \in {f64_round(a.sign * b.sign, BigMul(a.man, b.man), a.exp + b.exp) :
                         a \in {x}, b \in {y}} : TRUE

\* hi + lo for hi.exp >= lo.exp, neither 0.  A lo more than 64 places below
\* hi is lost in the rounding
f64_add_ordered(hi, lo) ==
    IF hi.exp - lo.exp > 64 THEN hi
    ELSE CHOOSE sum \in
        {f64_round(IF less THEN lo.sign ELSE hi.sign,
                   IF hi.sign = lo.sign THEN BigAdd(m, lo.man)
                   ELSE BigSub(IF less THEN lo.man ELSE m, IF less THEN m ELSE lo.man),
                   lo.exp) :
         m \in {BigShl(hi.man, hi.exp - lo.exp)},
         less \in {hi.sign # lo.sign /\ BigLess(BigShl(hi.man, hi.exp - lo.exp), lo.man)}} : TRUE

\* x + y
f64_add(x, y) ==
    CHOOSE sum \in
        {IF BigBits(a.man) = 0 THEN b
         ELSE IF BigBits(b.man) = 0 THEN a
         ELSE f64_add_ordered(IF a.exp >= b.exp THEN a ELSE b, IF a.exp >= b.exp THEN b ELSE a) :
         a \in {x}, b \in {y}} : TRUE

\* x as f64, for an f32 x
f64_from_f32(x) ==
    IF x = 0 THEN f64_zero
    ELSE f64_round(Sign(x), <<f32_mantissa(x) % FixBase, f32_mantissa(x) \div FixBase>>,
                   f32_exponent(x))

\* k as f64, for a whole k of at most 14 bits
f64_from_i32(k) == f64_round(Sign(k), <<Abs(k)>>, 0)

\* the f32 of the 24-bit mantissa and the exponent of x
f64_as_f32_rounded(x) ==
    IF BigBits(x.man) = 0 \/ x.exp + 150 < 1 THEN 0
    ELSE x.sign * ((x.exp + 150) * (2 ^ 23) + (x.man[1] + x.man[2] * FixBase - 2 ^ 23))

\* x as f32
f64_as_f32(x) ==
    CHOOSE y \in
        {CHOOSE z \in {f64_as_f32_rounded(r) : r \in {f64_round_to(a.sign, a.man, a.exp, 24)}} : TRUE :
         a \in {x}} : TRUE

(***************************************************************************)
(* f32::ln: logf of the C library.  x = z * 2^k with z near 1, the interval *)
(* of z cut into 16 parts; with c the centre of the part of z,              *)
(* ln x = ln(1 + r) + ln c + k ln 2 for r = z / c - 1, and ln(1 + r) is a    *)
(* polynomial in r                                                          *)
(***************************************************************************)
\* for each part, 1 / c and ln c
logf_T ==
    << <<[sign |-> 1, man |-> <<13246, 10211, 7879, 1432>>, exp |-> -52],
       [sign |-> -1, man |-> <<10974, 562, 16248, 1374>>, exp |-> -54]>>,
       <<[sign |-> 1, man |-> <<2109, 10942, 7892, 1372>>, exp |-> -52],
       [sign |-> -1, man |-> <<11739, 7937, 12042, 1199>>, exp |-> -54]>>,
       <<[sign |-> 1, man |-> <<4272, 960, 5023, 1317>>, exp |-> -52],
       [sign |-> -1, man |-> <<14951, 15684, 10983, 1031>>, exp |-> -54]>>,
       <<[sign |-> 1, man |-> <<901, 736, 6491, 1266>>, exp |-> -52],
       [sign |-> -1, man |-> <<9449, 6664, 7562, 1740>>, exp |-> -55]>>,
       <<[sign |-> 1, man |-> <<9381, 12833, 4496, 1219>>, exp |-> -52],
       [sign |-> -1, man |-> <<14168, 11009, 13552, 1429>>, exp |-> -55]>>,
       <<[sign |-> 1, man |-> <<3744, 11310, 8743, 1175>>, exp |-> -52],
       [sign |-> -1, man |-> <<256, 7794, 8892, 1130>>, exp |-> -55]>>,
       <<[sign |-> 1, man |-> <<13375, 10344, 13476, 1134>>, exp |-> -52],
       [sign |-> -1, man |-> <<3678, 14896, 10092, 1683>>, exp |-> -56]>>,
       <<[sign |-> 1, man |-> <<9658, 555, 13711, 1096>>, exp |-> -52],
       [sign |-> -1, man |-> <<7372, 10628, 13253, 1125>>, exp |-> -56]>>,
       <<[sign |-> 1, man |-> <<167, 1636, 5108, 1061>>, exp |-> -52],
       [sign |-> -1, man |-> <<3102, 9092, 12099, 1172>>, exp |-> -57]>>,
       <<[sign |-> 1, man |-> <<0, 0, 0, 1024>>, exp |-> -52],
       f64_zero>>,
       <<[sign |-> 1, man |-> <<1964, 13929, 2255, 1944>>, exp |-> -53],
       [sign |-> 1, man |-> <<6532, 14281, 6821, 1705>>, exp |-> -57]>>,
       <<[sign |-> 1, man |-> <<10912, 15369, 2865, 1833>>, exp |-> -53],
       [sign |-> 1, man |-> <<11956, 10456, 9530, 1815>>, exp |-> -56]>>,
       <<[sign |-> 1, man |-> <<15590, 7595, 869, 1736>>, exp |-> -53],
       [sign |-> 1, man |-> <<6920, 7299, 11863, 1353>>, exp |-> -55]>>,
       <<[sign |-> 1, man |-> <<10797, 3718, 11542, 1648>>, exp |-> -53],
       [sign |-> 1, man |-> <<1904, 13449, 10336, 1776>>, exp |-> -55]>>,
       <<[sign |-> 1, man |-> <<493, 3553, 11872, 1569>>, exp |-> -53],
       [sign |-> 1, man |-> <<16097, 8833, 6332, 1089>>, exp |-> -54]>>,
       <<[sign |-> 1, man |-> <<2146, 5453, 15823, 1497>>, exp |-> -53],
       [sign |-> 1, man |-> <<11785, 7899, 773, 1281>>, exp |-> -54]>> >>
logf_Ln2 == [sign |-> 1, man |-> <<14831, 15336, 9263, 1419>>, exp |-> -53]
logf_A ==
    << [sign |-> -1, man |-> <<820, 8930, 10804, 1027>>, exp |-> -54],
       [sign |-> 1, man |-> <<2922, 12160, 13744, 1365>>, exp |-> -54],
       [sign |-> -1, man |-> <<291, 2089, 16367, 2047>>, exp |-> -54] >>
\* the bit pattern of the lower end of the interval of z, 0x3f330000
logf_OFF == 1060306944

\* y * r2 + (y0 + r), for y = A[0] * r2 + (A[1] * r + A[2])
logf_polynomial(r, r2, y0) ==
    f64_add(f64_mul(f64_add(f64_mul(logf_A[1], r2), f64_add(f64_mul(logf_A[2], r), logf_A[3])),
                    r2),
            f64_add(y0, r))

\* the logarithm from z, its part i of the table and k
logf_reduced(r, logc, k) ==
    CHOOSE y \in
        {f64_as_f32(logf_polynomial(a, f64_mul(a, a),
                                    f64_add(logc, f64_mul(f64_from_i32(k), logf_Ln2)))) :
         a \in {r}} : TRUE

logf_parts(z, i, k) ==
    logf_reduced(f64_add(f64_mul(f64_from_f32(z), logf_T[i + 1][1]), f64_from_i32(-1)),
                 logf_T[i + 1][2], k)

\* logf of the bit pattern ix of a normal x > 0
logf(ix) ==
    CHOOSE y \in
        {IF a = f32(One) THEN 0
         ELSE logf_parts(a - ((a - logf_OFF) \div (2 ^ 23)) * (2 ^ 23),
                         ((a - logf_OFF) \div (2 ^ 19)) % 16,
                         (a - logf_OFF) \div (2 ^ 23)) :
         a \in {ix}} : TRUE

\* f32::ln of v > 0
ln(v) == logf(v)

(***************************************************************************)
(* f32::exp and 2f32.powf: expf and powf of the C library.  Both cut the    *)
(* exponent to base 2 into k / 32 and a rest r, and return 2^(k/32) times a *)
(* polynomial in r                                                          *)
(***************************************************************************)
\* 2^(i/32) for i = 0 .. 31
exp2f_T ==
    << [sign |-> 1, man |-> <<0, 0, 0, 1024>>, exp |-> -52],
       [sign |-> 1, man |-> <<1396, 3158, 6925, 1046>>, exp |-> -52],
       [sign |-> 1, man |-> <<2319, 13286, 5510, 1069>>, exp |-> -52],
       [sign |-> 1, man |-> <<6993, 73, 12317, 1092>>, exp |-> -52],
       [sign |-> 1, man |-> <<4475, 12789, 11139, 1116>>, exp |-> -52],
       [sign |-> 1, man |-> <<14762, 1442, 2163, 1141>>, exp |-> -52],
       [sign |-> 1, man |-> <<8760, 14805, 1958, 1166>>, exp |-> -52],
       [sign |-> 1, man |-> <<7905, 5247, 10719, 1191>>, exp |-> -52],
       [sign |-> 1, man |-> <<14101, 10438, 12256, 1217>>, exp |-> -52],
       [sign |-> 1, man |-> <<10699, 7402, 6771, 1244>>, exp |-> -52],
       [sign |-> 1, man |-> <<13346, 12360, 10852, 1271>>, exp |-> -52],
       [sign |-> 1, man |-> <<2349, 390, 8326, 1299>>, exp |-> -52],
       [sign |-> 1, man |-> <<10791, 5336, 15789, 1327>>, exp |-> -52],
       [sign |-> 1, man |-> <<3970, 6773, 693, 1357>>, exp |-> -52],
       [sign |-> 1, man |-> <<5161, 13601, 12413, 1386>>, exp |-> -52],
       [sign |-> 1, man |-> <<5509, 233, 2027, 1417>>, exp |-> -52],
       [sign |-> 1, man |-> <<15309, 6652, 2534, 1448>>, exp |-> -52],
       [sign |-> 1, man |-> <<8052, 9137, 14174, 1479>>, exp |-> -52],
       [sign |-> 1, man |-> <<391, 4012, 4423, 1512>>, exp |-> -52],
       [sign |-> 1, man |-> <<3603, 9523, 6297, 1545>>, exp |-> -52],
       [sign |-> 1, man |-> <<8411, 2218, 3668, 1579>>, exp |-> -52],
       [sign |-> 1, man |-> <<1509, 823, 13179, 1613>>, exp |-> -52],
       [sign |-> 1, man |-> <<12432, 2703, 2328, 1649>>, exp |-> -52],
       [sign |-> 1, man |-> <<9565, 2296, 4155, 1685>>, exp |-> -52],
       [sign |-> 1, man |-> <<5037, 9579, 2553, 1722>>, exp |-> -52],
       [sign |-> 1, man |-> <<7751, 3053, 14191, 1759>>, exp |-> -52],
       [sign |-> 1, man |-> <<4764, 13845, 6589, 1798>>, exp |-> -52],
       [sign |-> 1, man |-> <<4201, 13246, 12813, 1837>>, exp |-> -52],
       [sign |-> 1, man |-> <<9351, 13294, 397, 1878>>, exp |-> -52],
       [sign |-> 1, man |-> <<7007, 3566, 2419, 1919>>, exp |-> -52],
       [sign |-> 1, man |-> <<4314, 2706, 2810, 1961>>, exp |-> -52],
       [sign |-> 1, man |-> <<1344, 11705, 1893, 2004>>, exp |-> -52] >>
exp2f_C ==
    << [sign |-> 1, man |-> <<9108, 11844, 12164, 1818>>, exp |-> -57],
       [sign |-> 1, man |-> <<1267, 1003, 15589, 1967>>, exp |-> -55],
       [sign |-> 1, man |-> <<4822, 15409, 9263, 1419>>, exp |-> -53] >>
expf_InvLn2N == [sign |-> 1, man |-> <<766, 5294, 5238, 1477>>, exp |-> -47]
\* 1.5 * 2^52 * 2^exp: added to a value, it rounds the value to a multiple of
\* 2^exp
exp2f_shift(exp) == [sign |-> 1, man |-> <<0, 0, 0, 1536>>, exp |-> exp]

f64_neg(x) == [x EXCEPT !.sign = -x.sign]

\* the coefficients for a rest in 32nds
expf_C == [j \in 1 .. 3 |-> [exp2f_C[j] EXCEPT !.exp = exp2f_C[j].exp - 5 * (4 - j)]]

\* s * ((C[1] * r + C[2]) * r^2 + (C[3] * r + 1)) for s = 2^(k/32)
exp2f_polynomial(r, k, C) ==
    CHOOSE y \in
        {f64_as_f32(
             f64_mul(f64_add(f64_mul(f64_add(f64_mul(C[1], a), C[2]), f64_mul(a, a)),
                             f64_add(f64_mul(C[3], a), f64_from_i32(1))),
                     [exp2f_T[(k % 32) + 1] EXCEPT
                         !.exp = exp2f_T[(k % 32) + 1].exp + (k \div 32)])) :
         a \in {r}} : TRUE

\* the whole number k the sum `shifted` holds in its lowest bits, and the rest
\* of x after k * 2^exp
exp2f_rest(x, shifted, exp, C) ==
    CHOOSE y \in
        {exp2f_polynomial(f64_add(x, f64_neg(f64_add(kd, f64_neg(exp2f_shift(exp))))),
                          IF kd.man[1] < 2 ^ 13 THEN kd.man[1] ELSE kd.man[1] - 2 ^ 14,
                          C) :
         kd \in {shifted}} : TRUE

\* 2^(x * 2^-exp) for the f64 x
exp2f_inline(x, exp, C) ==
    CHOOSE y \in {exp2f_rest(a, f64_add(a, exp2f_shift(exp)), exp, C) : a \in {x}} : TRUE

\* the f32 values that are not numbers of the model: 0. / 0. and x / 0.
NaN == [nan |-> TRUE]
IsNaN(v) == "nan" \in DOMAIN v
Infinite(sign) == [infinite |-> sign]

\* f32::exp: expf answers at once above 0x1.62e42ep6 (overflow) and below
\* -0x1.9fe368p6 (underflow)
exp(v) ==
    CHOOSE y \in
        {IF x > 1118925335 THEN Infinite(1)
         ELSE IF x < -1120924084 THEN 0
         ELSE exp2f_inline(f64_mul(expf_InvLn2N, f64_from_f32(x)), 0, expf_C) :
         x \in {v}} : TRUE

\* 2f32.powf(v): the logarithm of 2 to base 2 comes out of powf as exactly 1
powf2(v) == exp2f_inline(f64_from_f32(v), -5, exp2f_C)

\* i as f32, for a whole i
as_f32(i) == f32_ratio(i, 1)

\* (i as f32).exp2() for a whole i from -126 to 127: exp2f, which computes as
\* powf computes 2^v, gives the power of two itself, the f32 of mantissa 1.0
\* and exponent i
exp2(i) == f32(One) + i * (2 ^ 23)

(***************************************************************************)
(* hash and the pseudo-random generator (lib.rs, rand, rand_pcg)            *)
(***************************************************************************)
\* fn hash(x: u64) -> u64: DefaultHasher, a fixed mixing function of the word
hash(x) == (5 * (x % Word) + 3) % Word

\* Pcg64Mcg::seed_from_u64(seed): the state of a multiplicative generator is odd
seed_from_u64(seed) == (2 * seed + 1) % RngMod

rng_step(state) == IF state = Free THEN Free ELSE (5 * state) % RngMod

rng_output(state) == (state * RawSize) \div RngMod

RECURSIVE rng_advance(_, _)
rng_advance(state, n) == IF n <= 0 THEN state ELSE rng_advance(rng_step(state), n - 1)

\* the streams of n raw draws a generator in `state` can yield
Stream(state, n) ==
    IF state = Free THEN [1 .. n -> RawDraws]
    ELSE {[k \in 1 .. n |-> rng_output(rng_advance(state, k - 1))]}

\* Rng::gen_bool(p): the draw is compared with p; Bernoulli::sample returns true
\* without taking a draw when p is 1
gen_bool_draws(p) == IF p = ProbOne THEN 0 ELSE 1

gen_bool(p, raw) == raw * ProbOne < p * RawSize

\* Rng::gen_range(low..high) on integers, one pass of the loop of
\* UniformInt::sample_single: the draw is multiplied by the range, the high word
\* of the product is the offset; the draw is rejected, and the loop draws again,
\* when the low word lies above the zone (range << range.leading_zeros()) - 1
gen_range_rejects(low, high, raw) ==
    ((raw * (high - low)) % RawSize) * (2 ^ (floor_log2(high - low) + 1))
        >= (high - low) * RawSize

gen_range(low, high, raw) == low + ((raw * (high - low)) \div RawSize)

\* the largest value a draw is turned into, 1 - f32::EPSILON = 1 - 2^-23
max_rand == f32(One) - 2

\* the 23 bits (u32 >> 9) that next_u32 gives the mantissa of value1_2.  A raw
\* draw stands for a word of the generator whose two highest bits are raw; its
\* low half, which next_u32 returns, is 0, 2^30, 2^31 and 2^32 - 1 for the raw
\* draws 0, 1, 2 and the last, so that both ends of the mantissa come up
fraction_bits(raw) == IF raw = RawSize - 1 THEN 2 ^ 23 - 1 ELSE raw * (2 ^ 21)

\* value1_2 = from_bits(bits | exponent of 1.0), value0_1 = value1_2 - 1.0
value0_1(raw) == f32_sub(f32(One) + fraction_bits(raw), f32(One))

\* the test of the loop of UniformFloat::new: scale * max_rand + low reaches high
Uniform_scale_reaches(low, high, scale) == f32_add(f32_mul(scale, max_rand), low) >= high

\* the largest f32 between accepted and rejected that the test does not hold
\* of, accepted being one it does not hold of and rejected one it holds of;
\* the test is monotone in scale, its sum and product being rounded monotonely
RECURSIVE Uniform_scale_between(_, _, _, _)
Uniform_scale_between(low, high, accepted, rejected) ==
    IF rejected - accepted <= 1 THEN accepted
    ELSE LET middle == accepted + ((rejected - accepted) \div 2) IN
         IF Uniform_scale_reaches(low, high, middle)
         THEN Uniform_scale_between(low, high, accepted, middle)
         ELSE Uniform_scale_between(low, high, middle, rejected)

\* the loop of UniformFloat::new: scale starts as high - low and is lowered to
\* the next smaller f32 (from_bits(to_bits() - 1)) as long as the test holds,
\* which ends at the largest f32 below the first scale that the test does not
\* hold of; a scale of 0 gives low, which is below high
Uniform_scale(low, high, scale) ==
    IF Uniform_scale_reaches(low, high, scale)
    THEN Uniform_scale_between(low, high, 0, scale)
    ELSE scale

\* Uniform::new(low, high): the assertion low < high, then the scale
Uniform_new(low, high) ==
    IF ~(low < high) THEN Panic
    ELSE [low |-> low, scale |-> Uniform_scale(low, high, f32_sub(high, low))]

\* Uniform<f32>::sample of Uniform::new(low, high): value0_1 * scale + low
Uniform_sample(low, high, raw) ==
    LET self == Uniform_new(low, high) IN
    IF IsPanic(self) THEN Panic
    ELSE f32_add(f32_mul(value0_1(raw), self.scale), self.low)

\* the sample of a Uniform over map coordinates, which the model keeps in whole
\* octaves
Uniform_sample_whole(low, high, raw) == low + ((raw * (high - low)) \div RawSize)

\* the loop of UniformFloat::new_inclusive: the scale is lowered to the next
\* smaller f32 as long as scale * max_rand + low > high
RECURSIVE Uniform_scale_inclusive(_, _, _)
Uniform_scale_inclusive(low, high, scale) ==
    IF f32_add(f32_mul(scale, max_rand), low) > high
    THEN Uniform_scale_inclusive(low, high, scale - 1)
    ELSE scale

\* UniformFloat::new_inclusive(low, high): the assertion low <= high, then the
\* scale (high - low) / max_rand, lowered by the loop
Uniform_new_inclusive(low, high) ==
    IF ~(low <= high) THEN Panic
    ELSE [low |-> low,
          scale |-> Uniform_scale_inclusive(low, high,
                                            f32_div(f32_sub(high, low), max_rand))]

\* Rng::gen_range(-1. ..=1.): the sample of Uniform::new_inclusive(-1., 1.)
gen_map(raw) ==
    LET self == Uniform_new_inclusive(f32(-One), f32(One)) IN
    f32_add(f32_mul(value0_1(raw), self.scale), self.low)

(***************************************************************************)
(* LogUniform (log_uniform.rs)                                             *)
(***************************************************************************)
\* 1e-6
Epsilon == f32(1)

LogUniform_from_tuple(low, high) ==
    IF ~(low >= 0) THEN Panic
    ELSE LET min == IF low = 0 THEN Epsilon ELSE low IN
         IF ~(high >= min) THEN Panic
         ELSE [min |-> min, max |-> high]

\* ((max.ln() - min.ln()) * (map + 1.) / 2. + min.ln()).exp()
LogUniform_unmap(self, map) ==
    IF self.min = self.max THEN self.min
    ELSE exp(f32_add(f32_div(f32_mul(f32_sub(ln(self.max), ln(self.min)),
                                     f32_add(map, f32(One))),
                             f32(2 * One)),
                     ln(self.min)))

\* LogUniform::map_value: (f.ln() - min.ln()) / (max.ln() - min.ln()) * 2. - 1.;
\* the logarithm of 0 is -infinity, of a negative number NaN
LogUniform_map_value(self, frequency) ==
    IF ~(self.min # self.max) THEN Panic
    ELSE LET span == f32_sub(ln(self.max), ln(self.min)) IN
         IF frequency < 0 THEN NaN
         ELSE IF frequency = 0 THEN (IF span = 0 THEN Infinite(-1) ELSE Infinite(-Sign(span)))
         ELSE LET distance == f32_sub(ln(frequency), ln(self.min)) IN
              IF span = 0 THEN (IF distance = 0 THEN NaN ELSE Infinite(Sign(distance)))
              ELSE [map |-> f32_sub(f32_mul(f32_div(distance, span), f32(2 * One)),
                                    f32(One))]

\* sample_with_map(rng).1
LogUniform_sample(self, raw) == LogUniform_unmap(self, gen_map(raw))

(***************************************************************************)
(* Oscillator distributions (parameters/oscillators.rs)                    *)
(***************************************************************************)
\* OscillatorTypeDistribution; low/high are the duty-cycle range of Pulse(Uniform)
TypeDistribution(kind, low, high) == [kind |-> kind, low |-> low, high |-> high]

OscillatorTypeDistribution_has_frequency(self) ==
    CASE self.kind = "Sine" -> TRUE
      [] self.kind = "Saw" -> TRUE
      [] self.kind = "Pulse" -> TRUE
      [] self.kind = "Triangle" -> TRUE
      [] self.kind = "Noise" -> FALSE

\* number of draws OscillatorTypeDistribution::sample takes
OscillatorTypeDistribution_draws(self) ==
    IF self.kind \in {"Pulse", "Noise"} THEN 1 ELSE 0

\* OscillatorTypeDistribution::sample: Pulse draws its duty cycle, Noise its seed
OscillatorTypeDistribution_sample(self, raw) ==
    CASE self.kind = "Pulse" ->
            [kind |-> "Pulse", duty |-> Uniform_sample(self.low, self.high, raw), seed |-> 0]
      [] self.kind = "Noise" -> [kind |-> "Noise", duty |-> 0, seed |-> raw]
      [] OTHER -> [kind |-> self.kind, duty |-> 0, seed |-> 0]

OscillatorDistribution_new(oscillator_type_distribution, probability, low, high) ==
    IF \/ ~(low >= 0)
       \/ ~(high >= low)
       \/ ~(high <= f32(One))
       \/ ~(probability > 0)
       \/ ~(probability <= ProbOne)
    THEN Panic
    ELSE LET amplitude_distribution == LogUniform_from_tuple(low, high) IN
         IF IsPanic(amplitude_distribution) THEN Panic
         ELSE [oscillator_type_distribution |-> oscillator_type_distribution,
               probability |-> probability,
               amplitude_distribution |-> amplitude_distribution]

maximum_amplitude(self) == self.amplitude_distribution.max

OscillatorDistribution_has_frequency(self) ==
    OscillatorTypeDistribution_has_frequency(self.oscillator_type_distribution)

\* OscillatorParameters::has_frequency
OscillatorParameters_has_frequency(self) ==
    /\ self.amplitude > 0
    /\ CASE self.oscillator_type.kind = "Noise" -> FALSE
         [] OTHER -> TRUE

\* OscillatorDistribution::sample from position pos of the stream raws:
\* Option<OscillatorParameters> as a sequence of length 0 or 1, and the draws used
OscillatorDistribution_sample(self, raws, pos) ==
    LET b == gen_bool_draws(self.probability) IN
    IF b = 1 /\ ~gen_bool(self.probability, raws[pos])
    THEN [some |-> <<>>, used |-> 1]
    ELSE LET n == OscillatorTypeDistribution_draws(self.oscillator_type_distribution) IN
         [some |-> <<[oscillator_type |->
                         OscillatorTypeDistribution_sample(
                             self.oscillator_type_distribution,
                             IF n = 1 THEN raws[pos + b] ELSE 0),
                      amplitude |->
                         LogUniform_sample(self.amplitude_distribution,
                                           raws[pos + b + n])]>>,
          used |-> b + n + 1]

(***************************************************************************)
(* Effect distributions (parameters/effects.rs)                            *)
(***************************************************************************)
\* EffectTypeDistribution::Distortion(LogUniform) | Normalize
EffectTypeDistribution_distortion(low, high) ==
    LET power == LogUniform_from_tuple(low, high) IN
    IF IsPanic(power) THEN Panic ELSE [kind |-> "Distortion", power |-> power]

EffectTypeDistribution_normalize ==
    [kind |-> "Normalize", power |-> [min |-> f32(One), max |-> f32(One)]]

EffectDistribution_new(effect_type_distribution, probability) ==
    IF \/ IsPanic(effect_type_distribution)
       \/ ~(probability > 0)
       \/ ~(probability <= ProbOne)
    THEN Panic
    ELSE [effect_type_distribution |-> effect_type_distribution,
          probability |-> probability]

\* EffectDistribution::sample: Option<EffectParameters>
EffectDistribution_sample(self, raws, pos) ==
    LET b == gen_bool_draws(self.probability) IN
    IF b = 1 /\ ~gen_bool(self.probability, raws[pos])
    THEN [some |-> <<>>, used |-> 1]
    ELSE IF self.effect_type_distribution.kind = "Distortion"
    THEN [some |-> <<[kind |-> "Distortion",
                      power |-> LogUniform_sample(self.effect_type_distribution.power,
                                                  raws[pos + b])]>>,
          used |-> b + 1]
    ELSE [some |-> <<[kind |-> "Normalize", power |-> 0]>>, used |-> b]

(***************************************************************************)
(* Chord table and frequency map (crate root)                              *)
(***************************************************************************)
\* CHORD_TYPES: (name, ChordType::new(offsets)); the offsets 5/4 and 3/2 are f32
CHORD_TYPES ==
    << [name |-> "Single Note", offsets |-> <<>>],
       [name |-> "Major", offsets |-> <<f32(1250000), f32(1500000)>>],
       [name |-> "Fifth", offsets |-> <<f32(1500000)>>] >>

\* ChordType::new
ChordType_new(offsets) == [offsets |-> offsets]

\* ChordType::num_notes
num_notes(self) == Len(self.offsets) + 1

\* the multiples first and the root last
ChordType_frequencies_root_last(self, base_frequency) ==
    [k \in 1 .. Len(self.offsets) |-> f32_mul(base_frequency, self.offsets[k])]
    \o <<base_frequency>>

\* ChordType::frequencies: once(base_frequency), then base_frequency * offset
\* for the offsets in table order
ChordType_frequencies(self, base_frequency) ==
    <<base_frequency>> \o
    [k \in 1 .. Len(self.offsets) |-> f32_mul(base_frequency, self.offsets[k])]

\* the frequency map: one unit of the coordinate is one octave above MapOrigin,
\* 25 Hz
MapOrigin == f32(25 * One)

RECURSIVE frequency_to_map(_)
frequency_to_map(frequency) ==
    IF frequency < f32_mul(f32(2 * One), MapOrigin) THEN 0
    ELSE 1 + frequency_to_map(f32_div(frequency, f32(2 * One)))

map_to_frequency(map) == f32_mul(MapOrigin, exp2(map))

(***************************************************************************)
(* DataParameters and its builder (parameters/data.rs)                     *)
(***************************************************************************)
\* a constructor that does not look at the chord ids
DataParameters_new_any_chord(sample_rate, frequency_low, frequency_high, std_dev_low, std_dev_high, possible_chords, octave_parameters, num_samples) ==
    IF \/ ~(frequency_low < frequency_high)
       \/ ~(num_samples > 0)
       \/ ~(sample_rate > 0)
       \/ ~(std_dev_low >= 0)
       \/ ~(std_dev_high >= std_dev_low)
       \/ Len(possible_chords) = 0
       \/ IsPanic(LogUniform_from_tuple(std_dev_low, std_dev_high))
    THEN Panic
    ELSE [sample_rate |-> sample_rate,
          frequency_distribution |-> [low |-> frequency_to_map(frequency_low),
                                      high |-> frequency_to_map(frequency_high)],
          frequency_std_dev_distribution |-> LogUniform_from_tuple(std_dev_low, std_dev_high),
          possible_chords |-> possible_chords,
          octave_parameters |-> octave_parameters,
          oscillators |-> <<>>,
          effects |-> <<>>,
          num_samples |-> num_samples,
          seed_offset |-> hash(hash(0))]

DataParameters_new(sample_rate, frequency_low, frequency_high, std_dev_low, std_dev_high, possible_chords, octave_parameters, num_samples) ==
    IF \/ ~(frequency_low < frequency_high)
       \/ ~(num_samples > 0)
       \/ ~(sample_rate > 0)
       \/ ~(std_dev_low >= 0)
       \/ ~(std_dev_high >= std_dev_low)
       \/ Len(possible_chords) = 0
       \/ \E k \in 1 .. Len(possible_chords) : ~(possible_chords[k] < Len(CHORD_TYPES))
       \/ IsPanic(LogUniform_from_tuple(std_dev_low, std_dev_high))
    THEN Panic
    ELSE [sample_rate |-> sample_rate,
          frequency_distribution |-> [low |-> frequency_to_map(frequency_low),
                                      high |-> frequency_to_map(frequency_high)],
          frequency_std_dev_distribution |-> LogUniform_from_tuple(std_dev_low, std_dev_high),
          possible_chords |-> possible_chords,
          octave_parameters |-> octave_parameters,
          oscillators |-> <<>>,
          effects |-> <<>>,
          num_samples |-> num_samples,
          seed_offset |-> hash(hash(0))]

\* a seed offset hashed once only
with_seed_offset_once(self, seed_offset) == [self EXCEPT !.seed_offset = hash(seed_offset)]

with_seed_offset(self, seed_offset) == [self EXCEPT !.seed_offset = hash(hash(seed_offset))]

\* the sum of the slots' amplitude maxima, added up in f32 in the order of the slots
osc_amplitude_sum(oscillators) ==
    f32_sum([k \in 1 .. Len(oscillators) |-> maximum_amplitude(oscillators[k])])

\* the slot pushed without the test of the sum
with_oscillator_unchecked(self, oscillator_type_distribution, probability, low, high) ==
    LET distribution ==
            OscillatorDistribution_new(oscillator_type_distribution, probability, low, high)
    IN IF IsPanic(distribution) THEN Panic
       ELSE [self EXCEPT !.oscillators = Append(self.oscillators, distribution)]

with_oscillator(self, oscillator_type_distribution, probability, low, high) ==
    LET distribution ==
            OscillatorDistribution_new(oscillator_type_distribution, probability, low, high)
    IN IF IsPanic(distribution) THEN Panic
       ELSE LET oscillators == Append(self.oscillators, distribution) IN
            IF osc_amplitude_sum(oscillators) > f32(One) THEN Panic
            ELSE [self EXCEPT !.oscillators = oscillators]

with_effect(self, effect_distribution, probability) ==
    LET distribution == EffectDistribution_new(effect_distribution, probability) IN
    IF IsPanic(distribution) THEN Panic
    ELSE [self EXCEPT !.effects = Append(self.effects, distribution)]

\* an assertion that any slot satisfies, noise included
generate_accepts_nonempty(self) == Len(self.oscillators) > 0

\* DataParameters::generate: the assertion, then the seed of the datapoint
generate_accepts(self) ==
    \E k \in 1 .. Len(self.oscillators) : OscillatorDistribution_has_frequency(self.oscillators[k])

generate_seed(self, index) == (hash(index) + self.seed_offset) % Word

(***************************************************************************)
(* OctaveParameters (parameters/data.rs)                                   *)
(***************************************************************************)
\* max_frequency compared with min_frequency instead of twice min_frequency
OctaveParameters_new_weak(add_root_octave_probability, add_other_octave_probability, min_frequency, max_frequency) ==
    IF \/ ~(add_root_octave_probability >= 0)
       \/ ~(add_root_octave_probability <= ProbOne)
       \/ ~(add_other_octave_probability >= 0)
       \/ ~(add_other_octave_probability <= ProbOne)
       \/ ~(min_frequency > 0)
       \/ ~(max_frequency >= min_frequency)
    THEN Panic
    ELSE [add_root_octave_probability |-> add_root_octave_probability,
          add_other_octave_probability |-> add_other_octave_probability,
          min_frequency |-> min_frequency,
          max_frequency |-> max_frequency]

OctaveParameters_new(add_root_octave_probability, add_other_octave_probability, min_frequency, max_frequency) ==
    IF \/ ~(add_root_octave_probability >= 0)
       \/ ~(add_root_octave_probability <= ProbOne)
       \/ ~(add_other_octave_probability >= 0)
       \/ ~(add_other_octave_probability <= ProbOne)
       \/ ~(min_frequency > 0)
       \/ ~(max_frequency >= f32_mul(min_frequency, f32(2 * One)))
    THEN Panic
    ELSE [add_root_octave_probability |-> add_root_octave_probability,
          add_other_octave_probability |-> add_other_octave_probability,
          min_frequency |-> min_frequency,
          max_frequency |-> max_frequency]

\* (-10i32..40).find(|&i| frequency / (i as f32).exp2() < self.min_frequency);
\* 40 stands for None
RECURSIVE find_given(_, _, _)
find_given(frequency, min_frequency, i) ==
    IF i >= 40 THEN 40
    ELSE IF f32_div(frequency, exp2(i)) < min_frequency THEN i
    ELSE find_given(frequency, min_frequency, i + 1)

\* frequency / (given_octave as f32).exp2()
lowest_octave_of(frequency, given_octave) == f32_div(frequency, exp2(given_octave))

\* lowest_octave * (octave as f32).exp2()
octave_frequency(lowest_octave, octave) == f32_mul(lowest_octave, exp2(octave))

\* (1i32..40).find(|&i| lowest_octave * (i as f32).exp2() > self.max_frequency);
\* 40 stands for None
RECURSIVE find_num_octaves(_, _, _)
find_num_octaves(lowest_octave, max_frequency, i) ==
    IF i >= 40 THEN 40
    ELSE IF octave_frequency(lowest_octave, i) > max_frequency THEN i
    ELSE find_num_octaves(lowest_octave, max_frequency, i + 1)

\* vec![if root { given_octave } else { rng.gen_range(0..num_octaves) }]
first_octave(root, given_octave, num_octaves, raw) ==
    IF root THEN given_octave ELSE gen_range(0, num_octaves, raw)

\* if !octaves.contains(&octave) { octaves.push(octave) }
push_octave(octaves, octave) ==
    IF InSeq(octaves, octave) THEN octaves ELSE Append(octaves, octave)

\* octaves.into_iter().map(move |octave| lowest_octave * exp2(octave))
emit_frequencies(lowest_octave, octaves) ==
    [k \in 1 .. Len(octaves) |-> octave_frequency(lowest_octave, octaves[k])]

NoFrame == [given_octave |-> 0, lowest_octave |-> 0, num_octaves |-> 0,
            root |-> FALSE, add_octave_probability |-> 0, octaves |-> <<>>]

\* the locals of generate_frequencies when its while loop is reached.  The first
\* octave of a note other than the root takes the draw raw; while gen_range
\* rejects the draw, octaves is empty and the next draw is to be taken
generate_frequencies_locals(self, frequency, root, raw, found) ==
    IF found >= 40 THEN Panic
    ELSE LET given_octave == found - 1
             lowest_octave == lowest_octave_of(frequency, given_octave)
             num_octaves == find_num_octaves(lowest_octave, self.max_frequency, 1)
         IN IF num_octaves >= 40 THEN Panic
            ELSE [given_octave |-> given_octave,
                  lowest_octave |-> lowest_octave,
                  num_octaves |-> num_octaves,
                  root |-> root,
                  add_octave_probability |->
                      IF root THEN self.add_root_octave_probability
                      ELSE self.add_other_octave_probability,
                  octaves |->
                      IF ~root /\ gen_range_rejects(0, num_octaves, raw) THEN <<>>
                      ELSE <<first_octave(root, given_octave, num_octaves, raw)>>]

generate_frequencies_begin(self, frequency, root, raw) ==
    generate_frequencies_locals(self, frequency, root, raw,
                                find_given(frequency, self.min_frequency, -10))

\* one test of `while rng.gen_bool(add_octave_probability)`
loop_continues(frame, raw) == gen_bool(frame.add_octave_probability, raw)

\* the draws the test took
loop_test_draws(frame) == gen_bool_draws(frame.add_octave_probability)

\* the body of the while loop, once gen_range has accepted the draw raw
loop_body(frame, raw) ==
    [frame EXCEPT !.octaves = push_octave(frame.octaves,
                                          gen_range(0, frame.num_octaves, raw))]

\* gen_range(0..num_octaves) in the body rejects the draw raw
loop_body_rejects(frame, raw) == gen_range_rejects(0, frame.num_octaves, raw)

(***************************************************************************)
(* Rendering (parameters/oscillators.rs, parameters/effects.rs, data.rs)   *)
(***************************************************************************)
\* One period of each waveform at its quarter points.
SineTable == <<0, f32(One), 0, f32(-One)>>
SawTable == <<f32(-One), f32(-(One \div 2)), 0, f32(One \div 2)>>
TriangleTable == <<f32(-One), 0, f32(One), 0>>
\* NoiseOscillator is written to the buffer as it comes, without a Clamp
NoiseTable == <<f32(3 * (One \div 2)), f32(-(One \div 2)), 0, f32(-(3 * (One \div 2))), f32(One)>>

\* frequency * ((2f32).powf(frequency_std_dev / 1200.) - 1.)
walk_std_dev(frequency, frequency_std_dev) ==
    f32_mul(frequency,
            f32_sub(powf2(f32_div(frequency_std_dev, f32_ratio(1200, 1))), f32(One)))

\* the quarter of the period sample n falls in, the frequency taken to the
\* nearest 1/16 Hz; the random walk seeded with walk_seed moves the frequency,
\* and so the phase, unless its deviation is 0
oscillator_quarter(frequency, frequency_std_dev, walk_seed, sample_rate, n) ==
    ((4 * n * f32_scaled(frequency, Hz, 1)) \div (sample_rate * Hz)
        + (IF walk_std_dev(frequency, frequency_std_dev) = 0 THEN 0 ELSE walk_seed)) % 4

\* oscillator.next(sample_num) of the module write() builds; the pulse is 1 for
\* the duty cycle and -1 after it, and write() adds -(duty_cycle * 2. - 1.)
oscillator_next(oscillator_type, frequency, frequency_std_dev, walk_seed, sample_rate, n) ==
    LET q == 1 + oscillator_quarter(frequency, frequency_std_dev, walk_seed, sample_rate, n) IN
    CASE oscillator_type.kind = "Sine" -> SineTable[q]
      [] oscillator_type.kind = "Saw" -> SawTable[q]
      [] oscillator_type.kind = "Pulse" ->
            f32_add(IF f32_ratio(q - 1, 4) < oscillator_type.duty THEN f32(One) ELSE f32(-One),
                    -f32_sub(f32_mul(oscillator_type.duty, f32(2 * One)), f32(One)))
      [] oscillator_type.kind = "Triangle" -> TriangleTable[q]
      [] oscillator_type.kind = "Noise" -> NoiseTable[1 + ((oscillator_type.seed + n) % 5)]

\* what OscillatorParameters::write adds to buffer[n]:
\* oscillator.next(sample_num) * amplitude
write(self, frequency, frequency_std_dev, walk_seed, sample_rate, n) ==
    f32_mul(oscillator_next(self.oscillator_type, frequency, frequency_std_dev,
                            walk_seed, sample_rate, n), self.amplitude)

\* a buffer allocated one sample short
generate_from_oscillators_short(parameters, walk_seeds) ==
    [n \in 1 .. (parameters.num_samples - 1) |-> 0]

\* DataPoint::generate_from_oscillators; walk_seeds are the draws of the generator
\* seeded with frequency_walk_seed, one per (frequency, oscillator) in loop order.
\* Each write adds to the sample in f32; amplitude_factor is 1. / num_notes as f32
generate_from_oscillators(parameters, walk_seeds) ==
    LET nosc == Len(parameters.oscillators)
        chord_type == CHORD_TYPES[parameters.chord_type + 1]
        amplitude_factor == f32_div(f32(One), f32_ratio(num_notes(chord_type), 1))
    IN [n \in 1 .. parameters.num_samples |->
          f32_mul(
            f32_sum([j \in 1 .. (Len(parameters.frequencies) * nosc) |->
                       write(parameters.oscillators[1 + ((j - 1) % nosc)],
                             parameters.frequencies[1 + ((j - 1) \div nosc)],
                             parameters.frequency_std_dev,
                             walk_seeds[j],
                             parameters.sample_rate,
                             n - 1)]),
            amplitude_factor)]

\* flexblock_synth::effects::distortion: a power-law curve scaled to the signal
\* amplitude; the power is used in whole units, the samples in units of 1e-3
RECURSIVE power_curve(_, _, _)
power_curve(x, amplitude, exponent) ==
    IF exponent <= 1 THEN x
    ELSE (power_curve(x, amplitude, exponent - 1) * x) \div amplitude

distortion(sample, power, signal_amplitude) ==
    IF units(signal_amplitude) \div 1000 = 0 THEN sample
    ELSE f32(Sign(sample) * 1000 *
             power_curve(Abs(units(sample)) \div 1000, units(signal_amplitude) \div 1000,
                         units(power) \div One))

\* the largest element, the sign counted
RECURSIVE max_by_value(_)
max_by_value(buffer) ==
    IF Len(buffer) = 1 THEN buffer[1]
    ELSE LET rest == max_by_value(Tail(buffer)) IN
         IF buffer[1] > rest THEN buffer[1] ELSE rest

\* the element of largest absolute value, as max_by_key(FloatOrd(x.abs())) finds it
RECURSIVE max_by_abs(_)
max_by_abs(buffer) ==
    IF Len(buffer) = 1 THEN buffer[1]
    ELSE LET rest == max_by_abs(Tail(buffer)) IN
         IF Abs(buffer[1]) > Abs(rest) THEN buffer[1] ELSE rest

\* EffectParameters::apply_to_buffer; the buffer after the call, or the panic
apply_to_buffer(self, buffer, signal_amplitude) ==
    IF self.kind = "Distortion"
    THEN [buffer |-> [n \in 1 .. Len(buffer) |->
                        distortion(buffer[n], self.power, signal_amplitude)]]
    ELSE IF Len(buffer) = 0 THEN Panic
    ELSE LET max_amplitude == Abs(max_by_abs(buffer))
             normalized == IF max_amplitude > 0
                           THEN [n \in 1 .. Len(buffer) |-> f32_div(buffer[n], max_amplitude)]
                           ELSE buffer
         IN IF ~(max_by_abs(normalized) <= f32(One)) THEN Panic ELSE [buffer |-> normalized]

RECURSIVE apply_effect_list(_, _, _, _)
apply_effect_list(effects, k, state, total_amplitude) ==
    IF IsPanic(state) \/ k > Len(effects) THEN state
    ELSE apply_effect_list(effects, k + 1,
                           apply_to_buffer(effects[k], state.buffer, total_amplitude),
                           total_amplitude)

\* DataPoint::apply_effects: the nominal amplitude is summed once, before any effect
apply_effects(parameters, buffer) ==
    apply_effect_list(parameters.effects, 1, [buffer |-> buffer],
        f32_sum([k \in 1 .. Len(parameters.oscillators) |->
                    parameters.oscillators[k].amplitude]))

\* Audio::from_samples
Audio_from_samples(samples, sample_rate) == [samples |-> samples, sample_rate |-> sample_rate]

\* DataPoint::new
DataPoint_new(parameters, walk_seeds) ==
    LET samples == apply_effects(parameters,
                                 generate_from_oscillators(parameters, walk_seeds))
    IN IF IsPanic(samples) THEN Panic
       ELSE [ok |-> TRUE,
             audio |-> Audio_from_samples(samples.buffer, parameters.sample_rate),
             parameters |-> parameters]

\* DataPointLabel::new, without the field `note`: the conversions
\* crate::frequency_to_note_number and crate::note_number_to_note that fill it
\* are not part of the sources
DataPointLabel_new(params) ==
    [sample_rate |-> params.sample_rate,
     base_frequency |-> params.base_frequency,
     frequencies |-> params.frequencies,
     chord_type |-> params.chord_type,
     num_samples |-> params.num_samples]

(***************************************************************************)
(* DataParameters::generate and DataPointParameters::new, step by step     *)
(***************************************************************************)
NoParams == [sample_rate |-> 0, base_frequency |-> 0, frequency_std_dev |-> 0,
             frequency_walk_seed |-> 0, chord_type |-> 0, frequencies |-> <<>>,
             oscillators |-> <<>>, effects |-> <<>>, num_samples |-> 0]
NoDataPoint == [ok |-> FALSE]

\* the locals of a caller that is not inside generate
Idle == [pc |-> "idle", index |-> 0, seed |-> 0, rng |-> 0, base_frequency |-> 0,
         oscillators |-> <<>>, retried |-> FALSE, chord_type |-> 0, note |-> 0,
         frame |-> NoFrame, frequencies |-> <<>>, params |-> NoParams,
         data_point |-> NoDataPoint]

\* the notes of the chosen chord: chord.frequencies(base_frequency)
Notes(g) == ChordType_frequencies(CHORD_TYPES[g.chord_type + 1], g.base_frequency)

\* data_parameters.oscillators.iter().flat_map(|d| d.sample(&mut rng)).collect()
RECURSIVE sample_oscillators(_, _, _, _, _)
sample_oscillators(oscillators, k, raws, pos, acc) ==
    IF k > Len(oscillators) THEN [list |-> acc, used |-> pos - 1]
    ELSE LET s == OscillatorDistribution_sample(oscillators[k], raws, pos) IN
         sample_oscillators(oscillators, k + 1, raws, pos + s.used, acc \o s.some)

RECURSIVE sample_effects(_, _, _, _, _)
sample_effects(effects, k, raws, pos, acc) ==
    IF k > Len(effects) THEN [list |-> acc, used |-> pos - 1]
    ELSE LET s == EffectDistribution_sample(effects[k], raws, pos) IN
         sample_effects(effects, k + 1, raws, pos + s.used, acc \o s.some)

\* generate(&self, index) up to the base frequency: the assertion, the seed, the
\* generator seeded from it, the frequency map drawn and mapped to a frequency
generate_start(self, index) ==
    IF ~generate_accepts(self) THEN [Idle EXCEPT !.pc = "panicked", !.index = index]
    ELSE LET seed == generate_seed(self, index)
             rng == seed_from_u64(seed)
             frequency_map == Uniform_sample_whole(self.frequency_distribution.low,
                                                   self.frequency_distribution.high,
                                                   rng_output(rng))
         IN [Idle EXCEPT !.pc = "oscillators", !.index = index, !.seed = seed,
                         !.rng = rng_step(rng),
                         !.base_frequency = map_to_frequency(frequency_map)]

\* an exit test satisfied by any included oscillator
resample_exit_nonempty(oscillators) == Len(oscillators) > 0

\* the exit test of `let oscillators = loop { ... }`
resample_exit(oscillators) ==
    \E k \in 1 .. Len(oscillators) : OscillatorParameters_has_frequency(oscillators[k])

\* one pass of the resampling loop
resample_step(self, g, raws) ==
    LET s == sample_oscillators(self.oscillators, 1, raws, 1, <<>>) IN
    IF resample_exit(s.list)
    THEN [g EXCEPT !.pc = "chord", !.oscillators = s.list,
                   !.rng = rng_advance(g.rng, s.used)]
    ELSE [g EXCEPT !.retried = TRUE, !.rng = rng_advance(g.rng, s.used)]

\* a chord taken from the end of the chord table, whatever the template allows
choose_chord_step_last(self, g, raws) ==
    IF gen_range_rejects(0, Len(self.possible_chords), raws[1])
    THEN [g EXCEPT !.rng = rng_step(g.rng)]
    ELSE [g EXCEPT !.pc = "note", !.note = 1, !.frequencies = <<>>,
                   !.chord_type = Len(CHORD_TYPES) - 1,
                   !.rng = rng_step(g.rng)]

\* *data_parameters.possible_chords.choose(&mut rng).unwrap(): one pass of the
\* loop of gen_range(0..len); a rejected draw leaves the choice to the next one
choose_chord_step(self, g, raws) ==
    IF gen_range_rejects(0, Len(self.possible_chords), raws[1])
    THEN [g EXCEPT !.rng = rng_step(g.rng)]
    ELSE [g EXCEPT !.pc = "note", !.note = 1, !.frequencies = <<>>,
                   !.chord_type = self.possible_chords[
                       1 + gen_range(0, Len(self.possible_chords), raws[1])],
                   !.rng = rng_step(g.rng)]

\* generate_frequencies for the next note of the chord, up to its while loop;
\* the root takes no draw, another note one draw for each pass of gen_range
note_begin_step(self, g, raws) ==
    LET root == g.note = 1
        frame == generate_frequencies_begin(self.octave_parameters,
                                            Notes(g)[g.note], root, raws[1])
    IN IF IsPanic(frame) THEN [g EXCEPT !.pc = "panicked"]
       ELSE IF frame.octaves = <<>> THEN [g EXCEPT !.rng = rng_step(g.rng)]
       ELSE [g EXCEPT !.pc = "octaves", !.frame = frame,
                      !.rng = IF root THEN g.rng ELSE rng_step(g.rng)]

\* one test of the while loop of generate_frequencies: its body is entered, or
\* the note's frequencies are emitted and the next note begins
note_loop_step(self, g, raws) ==
    IF loop_continues(g.frame, raws[1])
    THEN [g EXCEPT !.pc = "push",
                   !.rng = rng_advance(g.rng, loop_test_draws(g.frame))]
    ELSE [g EXCEPT !.frequencies =
                       g.frequencies \o emit_frequencies(g.frame.lowest_octave,
                                                         g.frame.octaves),
                   !.pc = IF g.note = Len(Notes(g)) THEN "finish" ELSE "note",
                   !.note = g.note + 1,
                   !.rng = rng_advance(g.rng, loop_test_draws(g.frame))]

\* the body of the while loop: one pass of the loop of gen_range, then the push
note_push_step(self, g, raws) ==
    IF loop_body_rejects(g.frame, raws[1])
    THEN [g EXCEPT !.rng = rng_step(g.rng)]
    ELSE [g EXCEPT !.pc = "octaves", !.frame = loop_body(g.frame, raws[1]),
                   !.rng = rng_step(g.rng)]

\* the struct literal that ends DataPointParameters::new, with the remaining draws
finish_step(self, g, raws) ==
    LET effects == sample_effects(self.effects, 1, raws, 3, <<>>) IN
    [g EXCEPT !.pc = "generated",
              !.rng = rng_advance(g.rng, effects.used),
              !.params =
                 [sample_rate |-> self.sample_rate,
                  base_frequency |-> g.base_frequency,
                  frequency_std_dev |->
                      LogUniform_sample(self.frequency_std_dev_distribution, raws[1]),
                  frequency_walk_seed |-> raws[2],
                  chord_type |-> g.chord_type,
                  frequencies |-> g.frequencies,
                  oscillators |-> g.oscillators,
                  effects |-> effects.list,
                  num_samples |-> self.num_samples]]

\* Pcg64Mcg::seed_from_u64(parameters.frequency_walk_seed) in generate_from_oscillators
walk_rng(frequency_walk_seed) == seed_from_u64(frequency_walk_seed)

\* the number of walk seeds a rendering draws
walk_draws(parameters) == Len(parameters.frequencies) * Len(parameters.oscillators)

\* DataPoint::new(parameters)
render_step(g, walk_seeds) ==
    LET data_point == DataPoint_new(g.params, walk_seeds) IN
    IF IsPanic(data_point) THEN [g EXCEPT !.pc = "panicked"]
    ELSE [g EXCEPT !.pc = "rendered", !.data_point = data_point]

\* generate(&self, index): the template is borrowed, not changed
Generate(w, index) ==
    /\ ~IsPanic(tpl)
    /\ gen[w].pc \in {"idle", "rendered"}
    /\ gen' = [gen EXCEPT ![w] = generate_start(tpl, index)]
    /\ tpl' = tpl
    /\ phase' = IF phase.pc = "run" THEN phase
                ELSE [phase EXCEPT !.pc = "run", !.template = tpl]
    /\ UNCHANGED <<seedArg, oct, aud, fx, fn>>

SampleOscillators(w) ==
    /\ gen[w].pc = "oscillators"
    /\ \E raws \in Stream(gen[w].rng, 3 * Len(tpl.oscillators)) :
         gen' = [gen EXCEPT ![w] = resample_step(tpl, gen[w], raws)]
    /\ UNCHANGED <<tpl, phase, seedArg, oct, aud, fx, fn>>

ChooseChord(w) ==
    /\ gen[w].pc = "chord"
    /\ \E raws \in Stream(gen[w].rng, 1) :
         gen' = [gen EXCEPT ![w] = choose_chord_step(tpl, gen[w], raws)]
    /\ UNCHANGED <<tpl, phase, seedArg, oct, aud, fx, fn>>

NoteBegin(w) ==
    /\ gen[w].pc = "note"
    /\ \E raws \in Stream(gen[w].rng, 1) :
         gen' = [gen EXCEPT ![w] = note_begin_step(tpl, gen[w], raws)]
    /\ UNCHANGED <<tpl, phase, seedArg, oct, aud, fx, fn>>

NoteLoop(w) ==
    /\ gen[w].pc = "octaves"
    /\ \E raws \in Stream(gen[w].rng, 1) :
         gen' = [gen EXCEPT ![w] = note_loop_step(tpl, gen[w], raws)]
    /\ UNCHANGED <<tpl, phase, seedArg, oct, aud, fx, fn>>

NotePush(w) ==
    /\ gen[w].pc = "push"
    /\ \E raws \in Stream(gen[w].rng, 1) :
         gen' = [gen EXCEPT ![w] = note_push_step(tpl, gen[w], raws)]
    /\ UNCHANGED <<tpl, phase, seedArg, oct, aud, fx, fn>>

Finish(w) ==
    /\ gen[w].pc = "finish"
    /\ \E raws \in Stream(gen[w].rng, 2 + 2 * Len(tpl.effects)) :
         gen' = [gen EXCEPT ![w] = finish_step(tpl, gen[w], raws)]
    /\ UNCHANGED <<tpl, phase, seedArg, oct, aud, fx, fn>>

Render(w) ==
    /\ gen[w].pc = "generated"
    /\ \E walk_seeds \in Stream(walk_rng(gen[w].params.frequency_walk_seed),
                                walk_draws(gen[w].params)) :
         gen' = [gen EXCEPT ![w] = render_step(gen[w], walk_seeds)]
    /\ UNCHANGED <<tpl, phase, seedArg, oct, aud, fx, fn>>

(***************************************************************************)
(* Value objects used on their own: a constructor call on arbitrary        *)
(* arguments, then calls on the value it returned                          *)
(***************************************************************************)
NoUse == [op |-> "none"]

\* most offsets of a chord type built by hand
MaxOffsets == 2
\* 5/4, 3/2 and 2
ChordOffsets == {f32(1250000), f32(1500000), f32(2 * One)}

ChordNew(offsets) ==
    /\ fn.op = "none"
    /\ fn' = [op |-> "ChordType::new", self |-> ChordType_new(offsets)]
    /\ UNCHANGED <<tpl, phase, seedArg, gen, oct, aud, fx>>

\* chord.frequencies(base_frequency).collect(), and chord.num_notes()
ChordFrequencies(base_frequency) ==
    /\ fn.op = "ChordType::new"
    /\ fn' = [op |-> "frequencies", self |-> fn.self, base_frequency |-> base_frequency,
              yielded |-> ChordType_frequencies(fn.self, base_frequency),
              num_notes |-> num_notes(fn.self)]
    /\ UNCHANGED <<tpl, phase, seedArg, gen, oct, aud, fx>>

(***************************************************************************)
(* The effects of one datapoint: sampled from the template's effect list   *)
(* (DataPointParameters::new), then applied to the buffer one iteration of  *)
(* the loop of DataPoint::apply_effects at a time                          *)
(***************************************************************************)
\* trace: the buffer before the first effect and after each iteration;
\* applied: the indices of the effects applied, in the order of application
\* amplitudes: the amplitudes of the oscillators; references: the signal
\* amplitude each call of apply_to_buffer was given
EffectsStart == [pc |-> "start", distributions |-> <<>>, effects |-> <<>>,
                 buffer |-> <<>>, amplitudes |-> <<>>, signal_amplitude |-> 0, next |-> 1,
                 trace |-> <<>>, applied |-> <<>>, references |-> <<>>]

\* the effects taken from the back of the list
next_effect_reversed(effects, k) == effects[Len(effects) + 1 - k]

\* the effect of iteration k of `for effect in parameters.effects.iter()`
next_effect(effects, k) == effects[k]

\* data_parameters.effects.iter().flat_map(|d| d.sample(&mut rng)).collect()
effects_sampled(f, distributions, raws) ==
    [f EXCEPT !.pc = "sampled", !.distributions = distributions,
              !.effects = sample_effects(distributions, 1, raws, 1, <<>>).list]

\* apply_effects up to its loop: total_amplitude is summed over the oscillators
apply_effects_enter(f, amplitudes, buffer) ==
    [f EXCEPT !.pc = "apply", !.buffer = buffer, !.amplitudes = amplitudes,
              !.signal_amplitude = f32_sum(amplitudes),
              !.next = 1, !.trace = <<buffer>>, !.applied = <<>>, !.references = <<>>]

\* an iteration that takes the peak of the buffer as it is now for the reference
apply_effects_iterate_live(f) ==
    LET reference == IF Len(f.buffer) = 0 THEN 0 ELSE Abs(max_by_abs(f.buffer))
        after == apply_to_buffer(next_effect(f.effects, f.next), f.buffer, reference)
    IN IF IsPanic(after) THEN [f EXCEPT !.pc = "panicked"]
       ELSE [f EXCEPT !.buffer = after.buffer, !.next = f.next + 1,
                      !.trace = Append(f.trace, after.buffer),
                      !.applied = Append(f.applied, f.next),
                      !.references = Append(f.references, reference)]

\* one iteration of the loop: effect.apply_to_buffer(buffer, total_amplitude)
apply_effects_iterate(f) ==
    LET reference == f.signal_amplitude
        after == apply_to_buffer(next_effect(f.effects, f.next), f.buffer, reference)
    IN IF IsPanic(after) THEN [f EXCEPT !.pc = "panicked"]
       ELSE [f EXCEPT !.buffer = after.buffer, !.next = f.next + 1,
                      !.trace = Append(f.trace, after.buffer),
                      !.applied = Append(f.applied, f.next),
                      !.references = Append(f.references, reference)]

EffectsSample(distributions) ==
    /\ fx.pc = "start"
    /\ \E raws \in Stream(Free, 2 * Len(distributions)) :
         fx' = effects_sampled(fx, distributions, raws)
    /\ UNCHANGED <<tpl, phase, seedArg, gen, oct, aud, fn>>

EffectsCall(amplitudes, buffer) ==
    /\ fx.pc = "sampled"
    /\ fx' = apply_effects_enter(fx, amplitudes, buffer)
    /\ UNCHANGED <<tpl, phase, seedArg, gen, oct, aud, fn>>

EffectsApply ==
    /\ fx.pc = "apply"
    /\ fx.next <= Len(fx.effects)
    /\ fx' = apply_effects_iterate(fx)
    /\ UNCHANGED <<tpl, phase, seedArg, gen, oct, aud, fn>>

EffectsReturn ==
    /\ fx.pc = "apply"
    /\ fx.next > Len(fx.effects)
    /\ fx' = [fx EXCEPT !.pc = "returned"]
    /\ UNCHANGED <<tpl, phase, seedArg, gen, oct, aud, fn>>

(***************************************************************************)
(* LogUniform on its own: from_tuple, then unmap, then map_value of the     *)
(* value unmap returned                                                    *)
(***************************************************************************)
LogUniformFromTuple(low, high) ==
    /\ fn.op = "none"
    /\ fn' = [op |-> "from_tuple", range |-> <<low, high>>,
              self |-> LogUniform_from_tuple(low, high)]
    /\ UNCHANGED <<tpl, phase, seedArg, gen, oct, aud, fx>>

LogUniformUnmap(map) ==
    /\ fn.op = "from_tuple"
    /\ ~IsPanic(fn.self)
    /\ fn' = [op |-> "unmap", range |-> fn.range, self |-> fn.self, map |-> map,
              value |-> LogUniform_unmap(fn.self, map)]
    /\ UNCHANGED <<tpl, phase, seedArg, gen, oct, aud, fx>>

LogUniformMapValue ==
    /\ fn.op = "unmap"
    /\ fn' = [op |-> "map_value", range |-> fn.range, self |-> fn.self, map |-> fn.map,
              value |-> fn.value, back |-> LogUniform_map_value(fn.self, fn.value)]
    /\ UNCHANGED <<tpl, phase, seedArg, gen, oct, aud, fx>>
(***************************************************************************)
(* Audio files and dataset directories (audio.rs, data.rs)                 *)
(***************************************************************************)
\* a path at which WavReader::open finds no readable WAV header
NoFile == [missing |-> TRUE]

\* the checks in the order bit depth, channels, sample format
Audio_from_wav_depth_first(file) ==
    IF "missing" \in DOMAIN file THEN [err |-> "Open"]
    ELSE IF file.bits_per_sample # 32
    THEN [err |-> "BitDepth", value |-> file.bits_per_sample]
    ELSE IF file.channels # 1
    THEN [err |-> "Channels", value |-> file.channels]
    ELSE IF file.sample_format # "Float"
    THEN [err |-> "SampleFormat", value |-> file.sample_format]
    ELSE IF file.truncated THEN Panic
    ELSE [ok |-> TRUE, audio |-> [samples |-> file.samples, sample_rate |-> file.sample_rate]]

\* Audio::from_wav: the error of WavReader::open is passed on by `?`, then the
\* three checks of reader.spec() in the order of the if-chain; s.unwrap() panics
\* on a sample that cannot be read
Audio_from_wav(file) ==
    IF "missing" \in DOMAIN file THEN [err |-> "Open"]
    ELSE IF file.channels # 1
    THEN [err |-> "Channels", value |-> file.channels]
    ELSE IF file.bits_per_sample # 32
    THEN [err |-> "BitDepth", value |-> file.bits_per_sample]
    ELSE IF file.sample_format # "Float"
    THEN [err |-> "SampleFormat", value |-> file.sample_format]
    ELSE IF file.truncated THEN Panic
    ELSE [ok |-> TRUE, audio |-> [samples |-> file.samples, sample_rate |-> file.sample_rate]]

\* Audio::num_samples
Audio_num_samples(self) == Len(self.samples)

\* the file at dir_path.join(format!("{data_point_name}.wav"))
wav_file(dir_path, data_point_name) ==
    IF data_point_name \in DOMAIN dir_path.wav THEN dir_path.wav[data_point_name] ELSE NoFile

\* load_data_point: the error of from_wav gets the context "Failed to load audio
\* for data point '{data_point_name}'."; each assert_eq! panics with its two
\* operands as the message
load_data_point(dir_path, data_point_name, label) ==
    LET audio == Audio_from_wav(wav_file(dir_path, data_point_name)) IN
    IF IsPanic(audio) THEN Panic
    ELSE IF "err" \in DOMAIN audio
    THEN [err |-> audio.err, context |-> data_point_name]
    ELSE IF audio.audio.sample_rate # label.sample_rate
    THEN [panic |-> TRUE, left |-> audio.audio.sample_rate, right |-> label.sample_rate]
    ELSE IF Audio_num_samples(audio.audio) # label.num_samples
    THEN [panic |-> TRUE, left |-> Audio_num_samples(audio.audio),
          right |-> label.num_samples]
    ELSE [ok |-> TRUE, audio |-> audio.audio, label |-> label]

\* labels.into_iter().map(load_data_point).collect(): the pairs in the order of
\* the labels file, up to the first datapoint that fails
RECURSIVE load_all(_, _, _, _)
load_all(path, labels, k, acc) ==
    IF k > Len(labels) THEN [ok |-> TRUE, pairs |-> acc]
    ELSE LET loaded == load_data_point(path, labels[k][1], labels[k][2]) IN
         IF "ok" \in DOMAIN loaded
         THEN load_all(path, labels, k + 1,
                       Append(acc, [audio |-> loaded.audio, label |-> loaded.label]))
         ELSE loaded

\* load_dir: the labels file is opened and parsed, each failing with `?`
load_dir(path) ==
    IF path.labels_file = "missing" THEN [err |-> "Open"]
    ELSE IF path.labels_file = "malformed" THEN [err |-> "Json"]
    ELSE load_all(path, path.labels, 1, <<>>)

(***************************************************************************)
(* The spectrum of an Audio and the low-pass filter (audio.rs, effects.rs)  *)
(***************************************************************************)
\* Complex32
Complex_new(re, im) == [re |-> re, im |-> im]

\* e^(-2 pi i q / 4): the twiddle factors of transforms of 1, 2 or 4 points
Root4(q) ==
    CASE q % 4 = 0 -> Complex_new(f32(One), 0)
      [] q % 4 = 1 -> Complex_new(0, f32(-One))
      [] q % 4 = 2 -> Complex_new(f32(-One), 0)
      [] q % 4 = 3 -> Complex_new(0, f32(One))

Complex_mul(a, b) ==
    Complex_new(f32_sub(f32_mul(a.re, b.re), f32_mul(a.im, b.im)),
                f32_add(f32_mul(a.re, b.im), f32_mul(a.im, b.re)))

RECURSIVE Complex_sum(_)
Complex_sum(s) ==
    IF Len(s) = 0 THEN Complex_new(0, 0)
    ELSE LET rest == Complex_sum(Tail(s)) IN
         Complex_new(f32_add(Head(s).re, rest.re), f32_add(Head(s).im, rest.im))

\* Fft::process of a planned transform of Len(buffer) points, Len(buffer) one of
\* 1, 2, 4; direction 1 is forward, 3 (the conjugate twiddles) is inverse; no
\* normalisation either way
Fft_process(buffer, direction) ==
    LET len == Len(buffer) IN
    [k \in 1 .. len |->
        Complex_sum([n \in 1 .. len |->
            Complex_mul(buffer[n],
                        Root4(direction * (k - 1) * (n - 1) * (4 \div len)))])]

\* Audio::fft
Audio_fft(self) ==
    Fft_process([n \in 1 .. Len(self.samples) |-> Complex_new(self.samples[n], 0)], 1)

\* Audio::from_spectrum: c.re / num_samples as f32
Audio_from_spectrum(spectrum, sample_rate) ==
    LET inverse == Fft_process(spectrum, 3)
        num_samples == Len(spectrum)
    IN [samples |-> [n \in 1 .. num_samples |->
                        f32_div(inverse[n].re, f32_ratio(num_samples, 1))],
        sample_rate |-> sample_rate]

\* usize::MAX = 2^64 - 1, which the cast saturates to; a usize is the sequence
\* of its limbs to base 2^14, the least significant first
usize_MAX == <<16383, 16383, 16383, 16383, 255>>

\* f32 as usize: the fraction dropped, a negative value saturated to 0 and a
\* value of 2^64 and more (the exponent of 1.0 raised by 64) to usize::MAX
as_usize(x) ==
    IF x <= 0 THEN <<>>
    ELSE IF x >= f32(One) + 64 * (2 ^ 23) THEN usize_MAX
    ELSE IF f32_exponent(x) >= 0
    THEN BigShl(<<f32_mantissa(x) % FixBase, f32_mantissa(x) \div FixBase>>, f32_exponent(x))
    ELSE BigShr(<<f32_mantissa(x) % FixBase, f32_mantissa(x) \div FixBase>>, -f32_exponent(x))

\* (cutoff_freq / audio.sample_rate as f32 * spectrum.len() as f32) as usize.
\* With a sample rate of 0 the quotient is an infinity with the sign of the
\* cutoff, or NaN for a cutoff of 0; the product with the length keeps the
\* infinity, or is NaN for a length of 0; the cast saturates +infinity to
\* usize::MAX and turns -infinity and NaN into 0
cutoff_index(cutoff_freq, sample_rate, len) ==
    IF sample_rate = 0
    THEN IF cutoff_freq > 0 /\ len > 0 THEN usize_MAX ELSE <<>>
    ELSE as_usize(f32_mul(f32_div(cutoff_freq, as_f32(sample_rate)), as_f32(len)))

\* spectrum.iter_mut().skip(index): from the bin of that index on, every bin is
\* set to Complex32::new(0., 0.)
zero_from(spectrum, index) ==
    [k \in 1 .. Len(spectrum) |->
        IF ~BigLess(<<k - 1>>, index) THEN Complex_new(0, 0) ELSE spectrum[k]]

\* effects::low_pass: the spectrum before and after the loop, the Audio behind
\* the shared reference after the call, and the Audio returned
low_pass(audio, cutoff_freq) ==
    LET spectrum == Audio_fft(audio)
        index == cutoff_index(cutoff_freq, audio.sample_rate, Len(spectrum))
        filtered == zero_from(spectrum, index)
    IN [spectrum |-> spectrum, filtered |-> filtered, audio |-> audio,
        result |-> Audio_from_spectrum(filtered, audio.sample_rate)]
(***************************************************************************)
(* Audio::samples_from_module (audio.rs), one loop iteration per step      *)
(***************************************************************************)
\* a test that also rejects a sample of absolute value exactly 1
clips_inclusive(sample) == Abs(sample) >= f32(One)

\* if sample.abs() > 1.
clips(sample) == Abs(sample) > f32(One)

AudioStart == [pc |-> "start", module |-> <<>>, sample_rate |-> 0, num_samples |-> 0,
               sample_num |-> 0, samples |-> <<>>, requested |-> <<>>,
               result |-> [ok |-> FALSE, clipping |-> 0 - 1]]

\* assert!(sample_rate != 0) and the set-up of the loop; the assertion fails
\* before the module is used
samples_from_module_enter(a, module, sample_rate, num_samples) ==
    IF ~(sample_rate # 0)
    THEN [a EXCEPT !.pc = "panicked", !.sample_rate = sample_rate,
                   !.num_samples = num_samples]
    ELSE [a EXCEPT !.pc = "loop", !.module = module, !.sample_rate = sample_rate,
                   !.num_samples = num_samples]

\* module.next(sample_num) of the instance created from the template
module_next(module, sample_num) == module[sample_num + 1]

\* one iteration of `for sample_num in 0..num_samples`; requested is the
\* history of the indices asked of the module
samples_from_module_iterate(a) ==
    LET sample == module_next(a.module, a.sample_num)
        pulled == [a EXCEPT !.requested = Append(a.requested, a.sample_num)]
    IN IF clips(sample)
       THEN [pulled EXCEPT !.pc = "returned",
                           !.result = [ok |-> FALSE, clipping |-> a.sample_num]]
       ELSE [pulled EXCEPT !.samples = Append(a.samples, sample),
                           !.sample_num = a.sample_num + 1]

\* Result::Ok(Self { samples, sample_rate })
samples_from_module_return(a) ==
    [a EXCEPT !.pc = "returned",
              !.result = [ok |-> TRUE,
                          audio |-> [samples |-> a.samples, sample_rate |-> a.sample_rate]]]

(***************************************************************************)
(* The template and its builder                                            *)
(***************************************************************************)
SampleRate == 4 * 100
NoSeed == 0 - 1
NoCall == [op |-> "none", budget |-> 0, high |-> 0]

DefaultOctaves == OctaveParameters_new(50, 50, f32(100 * One), f32(400 * One))

\* DataParameters::new(...): base frequencies of 50 Hz and 100 Hz, the chords
\* "Single Note" and "Major", octave copies between 100 Hz and 400 Hz
DefaultTemplate ==
    DataParameters_new(SampleRate, f32(50 * One), f32(200 * One), 0, f32(10 * One), <<0, 1>>,
                       DefaultOctaves, MaxSamples)

Workers == {1, 2}

BuildStart == [pc |-> "build", template |-> DefaultTemplate, call |-> NoCall]

SeedOffsets == {0, Word - 1}
OscillatorKindsBuilt == {"Sine", "Noise"}
SlotProbabilities == {50, ProbOne}
\* 0.5 and 0.7
AmplitudeMaxima == {f32(500000), f32(700000)}
EffectsBuilt == {EffectTypeDistribution_normalize,
                 EffectTypeDistribution_distortion(f32(2 * One), f32(2 * One))}

WithSeedOffset(seed_offset) ==
    /\ phase.pc = "build"
    /\ ~IsPanic(tpl)
    /\ tpl' = with_seed_offset(tpl, seed_offset)
    /\ seedArg' = seed_offset
    /\ phase' = [phase EXCEPT !.call = [op |-> "with_seed_offset", budget |-> 0, high |-> 0]]
    /\ UNCHANGED <<gen, oct, aud, fx, fn>>

WithOscillator(kind, probability, low, high) ==
    /\ phase.pc = "build"
    /\ ~IsPanic(tpl)
    /\ Len(tpl.oscillators) < MaxOscillators
    /\ tpl' = with_oscillator(tpl, TypeDistribution(kind, 0, 0), probability, low, high)
    /\ phase' = [phase EXCEPT !.call = [op |-> "with_oscillator",
                                        budget |-> osc_amplitude_sum(tpl.oscillators),
                                        high |-> high]]
    /\ UNCHANGED <<seedArg, gen, oct, aud, fx, fn>>

WithEffect(effect_distribution, probability) ==
    /\ phase.pc = "build"
    /\ ~IsPanic(tpl)
    /\ Len(tpl.effects) < MaxEffects
    /\ tpl' = with_effect(tpl, effect_distribution, probability)
    /\ phase' = [phase EXCEPT !.call = [op |-> "with_effect", budget |-> 0, high |-> 0]]
    /\ UNCHANGED <<seedArg, gen, oct, aud, fx, fn>>

(***************************************************************************)
(* Spec: a template is built, then one caller generates and renders        *)
(***************************************************************************)
OctaveStart == [pc |-> "start",
                args |-> [add_root_octave_probability |-> 0,
                          add_other_octave_probability |-> 0,
                          min_frequency |-> 0, max_frequency |-> 0],
                params |-> Panic, frequency |-> 0, root |-> FALSE,
                frame |-> NoFrame, frequencies |-> <<>>]

Init ==
    /\ tpl = DefaultTemplate
    /\ phase = BuildStart
    /\ seedArg = NoSeed
    /\ gen = [w \in Workers |-> Idle]
    /\ oct = OctaveStart
    /\ aud = AudioStart
    /\ fx = EffectsStart
    /\ fn = NoUse

Next ==
    \/ \E seed_offset \in SeedOffsets : WithSeedOffset(seed_offset)
    \/ \E kind \in OscillatorKindsBuilt, probability \in SlotProbabilities,
          high \in AmplitudeMaxima : WithOscillator(kind, probability, 0, high)
    \/ \E effect_distribution \in EffectsBuilt : WithEffect(effect_distribution, ProbOne)
    \/ \E index \in 0 .. MaxIndex : Generate(1, index)
    \/ SampleOscillators(1)
    \/ ChooseChord(1)
    \/ NoteBegin(1)
    \/ NoteLoop(1)
    \/ NotePush(1)
    \/ Finish(1)
    \/ Render(1)

Spec == Init /\ [][Next]_vars

(***************************************************************************)
(* SpecGen: callers on several threads generate and render from one        *)
(* finished template, again and again, their steps interleaved             *)
(***************************************************************************)
NoisyTemplate ==
    with_effect(
        with_oscillator(
            with_oscillator(DefaultTemplate, TypeDistribution("Noise", 0, 0),
                            ProbOne, 0, f32(500000)),
            TypeDistribution("Sine", 0, 0), 50, 0, f32(500000)),
        EffectTypeDistribution_normalize, 50)

PulseTemplate ==
    with_seed_offset(
        with_effect(
            with_oscillator(DefaultTemplate,
                            TypeDistribution("Pulse", f32(250000), f32(750000)),
                            ProbOne, f32(300000), f32(700000)),
            EffectTypeDistribution_distortion(f32(One), f32(2 * One)), ProbOne),
        Word - 1)

GenTemplates == {NoisyTemplate, PulseTemplate}

InitGen ==
    /\ tpl \in GenTemplates
    /\ phase = [pc |-> "run", template |-> tpl, call |-> NoCall]
    /\ seedArg = NoSeed
    /\ gen = [w \in Workers |-> Idle]
    /\ oct = OctaveStart
    /\ aud = AudioStart
    /\ fx = EffectsStart
    /\ fn = NoUse

NextGen ==
    \E w \in Workers :
        \/ \E index \in 0 .. MaxIndex : Generate(w, index)
        \/ SampleOscillators(w)
        \/ ChooseChord(w)
        \/ NoteBegin(w)
        \/ NoteLoop(w)
        \/ NotePush(w)
        \/ Finish(w)
        \/ Render(w)

SpecGen == InitGen /\ [][NextGen]_vars

(***************************************************************************)
(* SpecFull: the same callers on a template whose slots use up the         *)
(* amplitude budget                                                        *)
(***************************************************************************)
\* two sine slots whose amplitude maxima, 0.824 and 0.176, use up the budget of 1
FullTemplate ==
    with_seed_offset(
        with_oscillator(
            with_oscillator(DefaultTemplate, TypeDistribution("Sine", 0, 0),
                            ProbOne, 0, f32(824000)),
            TypeDistribution("Sine", 0, 0), ProbOne, 0, f32(176000)),
        7)

InitFull ==
    /\ tpl = FullTemplate
    /\ phase = [pc |-> "run", template |-> tpl, call |-> NoCall]
    /\ seedArg = NoSeed
    /\ gen = [w \in Workers |-> Idle]
    /\ oct = OctaveStart
    /\ aud = AudioStart
    /\ fx = EffectsStart
    /\ fn = NoUse

SpecFull == InitFull /\ [][NextGen]_vars

(***************************************************************************)
(* SpecRender: DataPointParameters written out field by field (the fields   *)
(* are public), then rendered                                              *)
(***************************************************************************)
DirectOscillators ==
    {[oscillator_type |-> [kind |-> kind, duty |-> 0, seed |-> 0], amplitude |-> amplitude] :
        kind \in {"Sine", "Noise"}, amplitude \in {f32(300000), f32(700000)}}
DirectEffects == {[kind |-> "Normalize", power |-> 0],
                  [kind |-> "Distortion", power |-> f32(2 * One)]}
DirectChords == {[chord_type |-> 0, frequencies |-> <<f32(100 * One)>>],
                 [chord_type |-> 2, frequencies |-> <<f32(100 * One), f32(150 * One)>>]}

SeqsUpTo(S, n) == UNION {[1 .. k -> S] : k \in 0 .. n}

DirectParameters(w, oscillators, effects, chord, frequency_std_dev, frequency_walk_seed) ==
    /\ gen[w].pc = "idle"
    /\ gen' = [gen EXCEPT ![w] =
                 [Idle EXCEPT !.pc = "generated",
                              !.params =
                                 [sample_rate |-> SampleRate,
                                  base_frequency |-> chord.frequencies[1],
                                  frequency_std_dev |-> frequency_std_dev,
                                  frequency_walk_seed |-> frequency_walk_seed,
                                  chord_type |-> chord.chord_type,
                                  frequencies |-> chord.frequencies,
                                  oscillators |-> oscillators,
                                  effects |-> effects,
                                  num_samples |-> MaxSamples]]]
    /\ UNCHANGED <<tpl, phase, seedArg, oct, aud, fx, fn>>

NextRender ==
    \/ \E oscillators \in SeqsUpTo(DirectOscillators, MaxOscillators),
          effects \in SeqsUpTo(DirectEffects, MaxEffects),
          chord \in DirectChords, frequency_std_dev \in {0, f32(1), f32(One)},
          frequency_walk_seed \in RawDraws :
            DirectParameters(1, oscillators, effects, chord, frequency_std_dev,
                             frequency_walk_seed)
    \/ Render(1)

SpecRender == Init /\ [][NextRender]_vars

(***************************************************************************)
(* SpecOctave: OctaveParameters::new on arbitrary arguments, then one call  *)
(* of generate_frequencies on an arbitrary note with an arbitrary stream    *)
(***************************************************************************)
OctaveProbabilities == {-50, 0, 50, ProbOne, 150}
OctaveMinFrequencies == {f32(-(100 * One)), 0, f32(100 * One), f32(200 * One)}
OctaveMaxFrequencies == {f32(150 * One), f32(200 * One), f32(400 * One)}
\* 1/16 Hz is a note more than ten octaves below the minimum; 0.1 Hz is the
\* f32 nearest to it, and its multiples by the offsets of a chord are rounded
NoteFrequencies ==
    {f32(62500), f32(100000), f32(50 * One), f32(100 * One), f32(150 * One), f32(300 * One),
     f32(1600 * One)}

OctaveNew(pr, po, minf, maxf) ==
    /\ oct.pc = "start"
    /\ LET params == OctaveParameters_new(pr, po, minf, maxf) IN
       oct' = [oct EXCEPT
                 !.pc = IF IsPanic(params) THEN "panicked" ELSE "constructed",
                 !.args = [add_root_octave_probability |-> pr,
                           add_other_octave_probability |-> po,
                           min_frequency |-> minf, max_frequency |-> maxf],
                 !.params = params]
    /\ UNCHANGED <<tpl, phase, seedArg, gen, aud, fx, fn>>

\* the call of generate_frequencies, and again for every draw that gen_range
\* rejects for the first octave of a note other than the root
OctaveBegin(frequency, root) ==
    /\ \/ oct.pc = "constructed"
       \/ oct.pc = "first" /\ frequency = oct.frequency /\ root = oct.root
    /\ \E raws \in Stream(Free, 1) :
         LET frame == generate_frequencies_begin(oct.params, frequency, root, raws[1]) IN
         oct' = [oct EXCEPT
                   !.pc = IF IsPanic(frame) THEN "call_panicked"
                          ELSE IF frame.octaves = <<>> THEN "first" ELSE "loop",
                   !.frequency = frequency, !.root = root,
                   !.frame = IF IsPanic(frame) THEN NoFrame ELSE frame]
    /\ UNCHANGED <<tpl, phase, seedArg, gen, aud, fx, fn>>

OctaveLoop ==
    /\ oct.pc = "loop"
    /\ \E raws \in Stream(Free, 1) :
         oct' = IF loop_continues(oct.frame, raws[1])
                THEN [oct EXCEPT !.pc = "push"]
                ELSE [oct EXCEPT !.pc = "returned",
                                 !.frequencies = emit_frequencies(oct.frame.lowest_octave,
                                                                  oct.frame.octaves)]
    /\ UNCHANGED <<tpl, phase, seedArg, gen, aud, fx, fn>>

OctavePush ==
    /\ oct.pc = "push"
    /\ \E raws \in Stream(Free, 1) :
         oct' = IF loop_body_rejects(oct.frame, raws[1]) THEN oct
                ELSE [oct EXCEPT !.pc = "loop", !.frame = loop_body(oct.frame, raws[1])]
    /\ UNCHANGED <<tpl, phase, seedArg, gen, aud, fx, fn>>

NextOctave ==
    \/ \E pr \in OctaveProbabilities, po \in OctaveProbabilities,
          minf \in OctaveMinFrequencies, maxf \in OctaveMaxFrequencies :
            OctaveNew(pr, po, minf, maxf)
    \/ \E frequency \in NoteFrequencies, root \in BOOLEAN : OctaveBegin(frequency, root)
    \/ OctaveLoop
    \/ OctavePush

SpecOctave == Init /\ [][NextOctave]_vars

(***************************************************************************)
(* SpecAudio: samples_from_module on a module that may return anything;    *)
(* a module is the sequence of the samples it returns                      *)
(***************************************************************************)
\* -1.000001, 0, 1 and 1.000001
ModuleSamples == {f32(-(One + 1)), 0, f32(One), f32(One + 1)}

AudioCall(module, sample_rate, num_samples) ==
    /\ aud.pc = "start"
    /\ aud' = samples_from_module_enter(aud, module, sample_rate, num_samples)
    /\ UNCHANGED <<tpl, phase, seedArg, gen, oct, fx, fn>>

AudioPull ==
    /\ aud.pc = "loop"
    /\ aud.sample_num < aud.num_samples
    /\ aud' = samples_from_module_iterate(aud)
    /\ UNCHANGED <<tpl, phase, seedArg, gen, oct, fx, fn>>

AudioReturn ==
    /\ aud.pc = "loop"
    /\ aud.sample_num = aud.num_samples
    /\ aud' = samples_from_module_return(aud)
    /\ UNCHANGED <<tpl, phase, seedArg, gen, oct, fx, fn>>

NextAudio ==
    \/ \E module \in [1 .. MaxSamples -> ModuleSamples],
          sample_rate \in {0, SampleRate}, num_samples \in 0 .. MaxSamples :
            AudioCall(module, sample_rate, num_samples)
    \/ AudioPull
    \/ AudioReturn

SpecAudio == Init /\ [][NextAudio]_vars

(***************************************************************************)
(* SpecEffects: the effects of a datapoint, sampled from an effect list as  *)
(* with_effect builds it, applied to an arbitrary buffer                    *)
(***************************************************************************)
EffectSlots == {EffectDistribution_new(effect_distribution, 50) :
                    effect_distribution \in EffectsBuilt}
\* -0.5, 0, 0.25 and 1
EffectSamples == {f32(-500000), 0, f32(250000), f32(One)}
OscillatorAmplitudes == {<<f32(One)>>, <<f32(300000), f32(200000)>>}

NextEffects ==
    \/ \E distributions \in SeqsUpTo(EffectSlots, MaxApplied) : EffectsSample(distributions)
    \/ \E amplitudes \in OscillatorAmplitudes, buffer \in SeqsUpTo(EffectSamples, MaxSamples) :
          EffectsCall(amplitudes, buffer)
    \/ EffectsApply
    \/ EffectsReturn

SpecEffects == Init /\ [][NextEffects]_vars

(***************************************************************************)
(* The constructors of the template and of its parts on arbitrary arguments *)
(***************************************************************************)
DataParametersNew(sample_rate, frequency_range, frequency_std_dev_range, possible_chords, num_samples) ==
    /\ fn.op = "none"
    /\ fn' = [op |-> "DataParameters::new",
              args |-> [sample_rate |-> sample_rate,
                        frequency_range |-> frequency_range,
                        frequency_std_dev_range |-> frequency_std_dev_range,
                        possible_chords |-> possible_chords,
                        num_samples |-> num_samples],
              result |-> DataParameters_new(sample_rate,
                                            frequency_range[1], frequency_range[2],
                                            frequency_std_dev_range[1],
                                            frequency_std_dev_range[2],
                                            possible_chords, DefaultOctaves, num_samples)]
    /\ UNCHANGED <<tpl, phase, seedArg, gen, oct, aud, fx>>

OscillatorDistributionNew(kind, probability, amplitude_range) ==
    /\ fn.op = "none"
    /\ fn' = [op |-> "OscillatorDistribution::new",
              args |-> [probability |-> probability, amplitude_range |-> amplitude_range],
              result |-> OscillatorDistribution_new(TypeDistribution(kind, 0, 0), probability,
                                                    amplitude_range[1], amplitude_range[2])]
    /\ UNCHANGED <<tpl, phase, seedArg, gen, oct, aud, fx>>

EffectDistributionNew(effect_type_distribution, probability) ==
    /\ fn.op = "none"
    /\ fn' = [op |-> "EffectDistribution::new",
              args |-> [probability |-> probability],
              result |-> EffectDistribution_new(effect_type_distribution, probability)]
    /\ UNCHANGED <<tpl, phase, seedArg, gen, oct, aud, fx>>

(***************************************************************************)
(* SpecValues: the value objects on their own                              *)
(***************************************************************************)
\* ends of the ranges given to from_tuple: negative, 0, the epsilon, values one
\* unit of the last place apart, and ordinary amplitudes, powers and deviations
RangeEnds ==
    {f32(-One), 0, Epsilon, f32(100000), f32(200000), f32(500000), f32(500001), f32(One),
     f32(10 * One)}
MapCoordinates == {f32(-One), f32(-(One \div 2)), 0, f32(One \div 2), f32(One)}

\* arguments of the constructors, valid and invalid
FrequencyRanges == {<<f32(50 * One), f32(200 * One)>>, <<f32(200 * One), f32(200 * One)>>, <<f32(200 * One), f32(50 * One)>>}
DeviationRanges ==
    {<<0, f32(10 * One)>>, <<f32(One), f32(One)>>, <<f32(-One), f32(One)>>, <<f32(One), 0>>}
ChordSets == {<<>>, <<0>>, <<1, 2>>, <<0, 3>>}
AmplitudeRanges ==
    {<<0, f32(500000)>>, <<f32(500000), f32(500000)>>, <<f32(-500000), f32(500000)>>,
     <<f32(700000), f32(500000)>>, <<f32(500000), f32(2 * One)>>}

NextValues ==
    \/ \E offsets \in SeqsUpTo(ChordOffsets, MaxOffsets) : ChordNew(offsets)
    \/ \E base_frequency \in NoteFrequencies : ChordFrequencies(base_frequency)
    \/ \E low \in RangeEnds, high \in RangeEnds : LogUniformFromTuple(low, high)
    \/ \E map \in MapCoordinates : LogUniformUnmap(map)
    \/ LogUniformMapValue
    \/ \E sample_rate \in {0, SampleRate}, frequency_range \in FrequencyRanges,
          frequency_std_dev_range \in DeviationRanges, possible_chords \in ChordSets,
          num_samples \in {0, MaxSamples} :
            DataParametersNew(sample_rate, frequency_range, frequency_std_dev_range,
                              possible_chords, num_samples)
    \/ \E kind \in OscillatorKindsBuilt, probability \in OctaveProbabilities,
          amplitude_range \in AmplitudeRanges :
            OscillatorDistributionNew(kind, probability, amplitude_range)
    \/ \E effect_type_distribution \in EffectsBuilt, probability \in OctaveProbabilities :
          EffectDistributionNew(effect_type_distribution, probability)

SpecValues == Init /\ [][NextValues]_vars

(***************************************************************************)
(* SpecFair: generate with an ideal random source in place of the seeded    *)
(* generator: every raw value can come at every draw, and an outcome that   *)
(* can come again and again does come                                       *)
(***************************************************************************)
FairOctaveProbabilities == {0, 50, ProbOne}
FairChordSets == {<<0>>, <<0, 2>>}

\* one sine slot that is left out of half of the passes; its amplitude and the
\* frequency deviation are fixed, so that the draws decide the control flow only
FairTemplate(add_root_octave_probability, add_other_octave_probability, possible_chords) ==
    with_oscillator(
        DataParameters_new(SampleRate, f32(50 * One), f32(200 * One), f32(One), f32(One), possible_chords,
                           OctaveParameters_new(add_root_octave_probability,
                                                add_other_octave_probability,
                                                f32(100 * One), f32(200 * One)),
                           MaxSamples),
        TypeDistribution("Sine", 0, 0), 50, f32(500000), f32(500000))

FairTemplates ==
    {FairTemplate(pr, po, chords) :
        pr \in FairOctaveProbabilities, po \in FairOctaveProbabilities,
        chords \in FairChordSets}

\* generate(&self, index) up to the base frequency, the draws left open
generate_start_free(self, index, raw) ==
    LET g == generate_start(self, index) IN
    IF g.pc = "panicked" THEN g
    ELSE [g EXCEPT !.rng = Free,
                   !.base_frequency =
                       map_to_frequency(
                           Uniform_sample_whole(self.frequency_distribution.low,
                                                self.frequency_distribution.high, raw))]

GenerateFree(w, index) ==
    /\ ~IsPanic(tpl)
    /\ gen[w].pc = "idle"
    /\ \E raws \in Stream(Free, 1) :
         gen' = [gen EXCEPT ![w] = generate_start_free(tpl, index, raws[1])]
    /\ UNCHANGED <<tpl, phase, seedArg, oct, aud, fx, fn>>

InitFair ==
    /\ tpl \in FairTemplates
    /\ phase = [pc |-> "run", template |-> tpl, call |-> NoCall]
    /\ seedArg = NoSeed
    /\ gen = [w \in Workers |-> Idle]
    /\ oct = OctaveStart
    /\ aud = AudioStart
    /\ fx = EffectsStart
    /\ fn = NoUse

NextFair ==
    \/ GenerateFree(1, 0)
    \/ SampleOscillators(1)
    \/ ChooseChord(1)
    \/ NoteBegin(1)
    \/ NoteLoop(1)
    \/ NotePush(1)
    \/ Finish(1)

\* the caller's thread keeps running, and each loop's exit, whenever the draws
\* allow it again and again, is taken
Fairness ==
    /\ WF_vars(SampleOscillators(1))
    /\ WF_vars(ChooseChord(1))
    /\ WF_vars(NoteBegin(1))
    /\ WF_vars(NoteLoop(1))
    /\ WF_vars(NotePush(1))
    /\ WF_vars(Finish(1))
    /\ SF_vars(SampleOscillators(1) /\ gen'[1].pc = "chord")
    /\ SF_vars(NoteLoop(1) /\ gen'[1].pc # "push")

SpecFair == InitFair /\ [][NextFair]_vars /\ Fairness

(***************************************************************************)
(* SpecFiles: WAV files are read and dataset directories are loaded        *)
(***************************************************************************)
SampleFormats == {"Float", "Int"}
FileSamples == {<<>>, <<0>>, <<0, f32(One)>>}

\* the files WavReader::open reads a header from
WavFiles ==
    [channels : {1, 2}, sample_rate : {SampleRate, 2 * SampleRate},
     bits_per_sample : {16, 32}, sample_format : SampleFormats,
     samples : FileSamples, truncated : BOOLEAN]

\* the files of the dataset directories: float files of either rate and length, a
\* stereo file and a file that ends early
DirectoryFiles ==
    {file \in WavFiles :
        /\ file.bits_per_sample = 32
        /\ file.sample_format = "Float"
        /\ file.samples # <<>>
        /\ file.channels = 2 => (file.sample_rate = SampleRate /\ Len(file.samples) = 1)
        /\ file.truncated => (file.channels = 1 /\ file.sample_rate = SampleRate
                              /\ Len(file.samples) = 1)}

DataPointNames == {"a", "b"}

\* the labels of the 50 Hz single note for either rate and sample count
Labels ==
    {DataPointLabel_new([NoParams EXCEPT !.sample_rate = sample_rate,
                                         !.num_samples = num_samples,
                                         !.base_frequency = f32(50 * One),
                                         !.frequencies = <<f32(50 * One)>>]) :
        sample_rate \in {SampleRate, 2 * SampleRate}, num_samples \in {1, 2}}

\* the contents of _labels.json: a list of (name, label) with distinct names
LabelLists ==
    {labels \in SeqsUpTo(DataPointNames \X Labels, 2) :
        \A i \in 1 .. Len(labels), j \in 1 .. Len(labels) :
            labels[i][1] = labels[j][1] => i = j}

\* a directory: _labels.json missing, malformed or parsed to its list, and the
\* WAV files by name
Directories ==
    {[labels_file |-> IF Len(labels) = 0 THEN state ELSE "parsed",
      labels |-> labels, wav |-> wav] :
        state \in {"missing", "malformed", "parsed"}, labels \in LabelLists,
        wav \in UNION {[names -> DirectoryFiles] : names \in SUBSET DataPointNames}}

AudioFromWav(file) ==
    /\ fn.op = "none"
    /\ fn' = [op |-> "from_wav", file |-> file, result |-> Audio_from_wav(file)]
    /\ UNCHANGED <<tpl, phase, seedArg, gen, oct, aud, fx>>

LoadDir(path) ==
    /\ fn.op = "none"
    /\ fn' = [op |-> "load_dir", path |-> path, result |-> load_dir(path)]
    /\ UNCHANGED <<tpl, phase, seedArg, gen, oct, aud, fx>>

NextFiles ==
    \/ \E file \in WavFiles \cup {NoFile} : AudioFromWav(file)
    \/ \E path \in Directories : LoadDir(path)

SpecFiles == Init /\ [][NextFiles]_vars

(***************************************************************************)
(* SpecLowPass: effects::low_pass on an Audio of 1, 2 or 4 samples          *)
(***************************************************************************)
FilterLengths == {1, 2, 4}
\* -0.5, 0 and 1
FilterSamples == {f32(-500000), 0, f32(One)}
\* 400 Hz, and 2^24 + 1 Hz, the smallest sample rate that is no f32
FilterSampleRates == {SampleRate, 2 ^ 24 + 1}
FilterAudios ==
    {Audio_from_samples(samples, sample_rate) :
        samples \in UNION {[1 .. len -> FilterSamples] : len \in FilterLengths},
        sample_rate \in FilterSampleRates}
\* cutoff frequencies below 0, at 0, at fractions of the sample rate that
\* fall on a bin, between two bins and above the sample rate, and 2^22 Hz
CutoffFrequencies ==
    {f32(-(100 * One)), 0, f32(100 * One), f32(150 * One), f32(200 * One), f32(300 * One),
     f32(500 * One), f32(One) + 22 * (2 ^ 23)}

LowPass(audio, cutoff_freq) ==
    /\ fn.op = "none"
    /\ fn' = [op |-> "low_pass", audio |-> audio, cutoff_freq |-> cutoff_freq,
              call |-> low_pass(audio, cutoff_freq)]
    /\ UNCHANGED <<tpl, phase, seedArg, gen, oct, aud, fx>>

NextLowPass == \E audio \in FilterAudios, cutoff_freq \in CutoffFrequencies : LowPass(audio, cutoff_freq)

SpecLowPass == Init /\ [][NextLowPass]_vars

(***************************************************************************)
(* DataGenerator (lib.rs): the iterator over the datapoints of a template,  *)
(* with the template, the sampling and the rendering of lib.rs              *)
(***************************************************************************)
\* DataParameters::new of lib.rs
lib_DataParameters_new(sample_rate, frequency_low, frequency_high, num_samples) ==
    LET frequency_distribution == LogUniform_from_tuple(frequency_low, frequency_high) IN
    IF IsPanic(frequency_distribution) THEN Panic
    ELSE [sample_rate |-> sample_rate,
          frequency_distribution |-> frequency_distribution,
          oscillators |-> <<>>,
          num_samples |-> num_samples,
          seed_offset |-> hash(hash(0))]

\* DataParameters::with_oscillator of lib.rs, with OscillatorDistribution::new
lib_with_oscillator(self, oscillator_type_distribution, low, high) ==
    LET amplitude_distribution == LogUniform_from_tuple(low, high) IN
    IF ~(low >= 0) \/ ~(high >= low) \/ ~(high <= f32(One)) THEN Panic
    ELSE IF IsPanic(amplitude_distribution) THEN Panic
    ELSE LET pushed == Append(self.oscillators,
                              [oscillator_type_distribution |-> oscillator_type_distribution,
                               amplitude_distribution |-> amplitude_distribution])
         IN IF f32_sum([k \in 1 .. Len(pushed) |-> pushed[k].amplitude_distribution.max])
                   > f32(One)
            THEN Panic
            ELSE [self EXCEPT !.oscillators = pushed]

\* .iter().map(|oscillator_distribution| oscillator_distribution.sample(&mut rng))
RECURSIVE lib_sample_oscillators(_, _, _, _)
lib_sample_oscillators(oscillators, k, rng, acc) ==
    IF k > Len(oscillators) THEN acc
    ELSE LET n == OscillatorTypeDistribution_draws(oscillators[k].oscillator_type_distribution)
             raws == [j \in 1 .. (n + 1) |-> rng_output(rng_advance(rng, j - 1))]
         IN lib_sample_oscillators(oscillators, k + 1, rng_advance(rng, n + 1),
              Append(acc,
                     [oscillator_type |->
                         OscillatorTypeDistribution_sample(
                             oscillators[k].oscillator_type_distribution, raws[1]),
                      amplitude |->
                         LogUniform_sample(oscillators[k].amplitude_distribution,
                                           raws[n + 1])]))

\* DataPointParameters::new of lib.rs
lib_DataPointParameters_new(data_parameters, seed) ==
    LET rng == seed_from_u64(seed)
        frequency_map == gen_map(rng_output(rng))
    IN [sample_rate |-> data_parameters.sample_rate,
        frequency_map |-> frequency_map,
        frequency |-> LogUniform_unmap(data_parameters.frequency_distribution, frequency_map),
        oscillators |-> lib_sample_oscillators(data_parameters.oscillators, 1,
                                               rng_step(rng), <<>>),
        num_samples |-> data_parameters.num_samples]

\* DataParameters::generate of lib.rs
lib_generate(self, index) == lib_DataPointParameters_new(self, generate_seed(self, index))

\* create_oscillator(frequency, sample_rate) at sample n: the noise is clamped
\* to [-1, 1], the pulse has no offset
create_oscillator(self, frequency, sample_rate, n) ==
    LET q == 1 + oscillator_quarter(frequency, 0, 0, sample_rate, n) IN
    CASE self.oscillator_type.kind = "Sine" -> SineTable[q]
      [] self.oscillator_type.kind = "Saw" -> SawTable[q]
      [] self.oscillator_type.kind = "Pulse" ->
            (IF f32_ratio(q - 1, 4) < self.oscillator_type.duty THEN f32(One) ELSE f32(-One))
      [] self.oscillator_type.kind = "Triangle" -> TriangleTable[q]
      [] self.oscillator_type.kind = "Noise" ->
            LET sample == NoiseTable[1 + ((self.oscillator_type.seed + n) % 5)] IN
            IF sample > f32(One) THEN f32(One)
            ELSE IF sample < f32(-One) THEN f32(-One) ELSE sample

\* Sum::new(oscillators), each create_oscillator(..) * oscillator.amplitude, as
\* the samples the module gives when it is asked for them
synth(params) ==
    [n \in 1 .. params.num_samples |->
        f32_sum([k \in 1 .. Len(params.oscillators) |->
                   f32_mul(create_oscillator(params.oscillators[k], params.frequency,
                                             params.sample_rate, n - 1),
                           params.oscillators[k].amplitude)])]

\* the loop of Audio::samples_from_module run to its return
RECURSIVE samples_from_module_run(_)
samples_from_module_run(a) ==
    IF a.pc # "loop" THEN a
    ELSE IF a.sample_num < a.num_samples
         THEN samples_from_module_run(samples_from_module_iterate(a))
         ELSE samples_from_module_return(a)

\* DataPoint::new of lib.rs: Ok(DataPoint) or Err(Clipping(sample_num))
lib_DataPoint_new(params) ==
    CHOOSE data_point \in
        {IF IsPanic(call) \/ call.pc = "panicked" THEN Panic
         ELSE IF call.result.ok
              THEN [ok |-> TRUE, audio |-> call.result.audio, label |-> params]
              ELSE call.result :
         call \in {samples_from_module_run(
                       samples_from_module_enter(AudioStart, synth(params),
                                                 params.sample_rate, params.num_samples))}} :
        TRUE

\* DataGenerator::new
DataGenerator_new(data_parameters) ==
    [data_parameters |-> data_parameters, data_point_num |-> 0]

\* an iterator that does not count a datapoint that failed
DataGenerator_next_counting_ok(self) ==
    CHOOSE next \in
        {IF IsPanic(data_point) THEN [self |-> self, item |-> <<>>, panicked |-> TRUE]
         ELSE [self |-> [self EXCEPT !.data_point_num =
                           IF data_point.ok THEN self.data_point_num + 1
                           ELSE self.data_point_num],
               item |-> <<data_point>>, panicked |-> FALSE] :
         data_point \in
            {lib_DataPoint_new(params) :
                params \in {lib_generate(self.data_parameters, self.data_point_num)}}} : TRUE

\* Iterator::next of DataGenerator: the generator after the call, and the
\* Option returned as a sequence of length 0 or 1. A panic of the rendering
\* unwinds out of next() before `self.data_point_num += 1`: the generator is
\* left as it was and the call returns nothing (panicked, with no item)
DataGenerator_next(self) ==
    CHOOSE next \in
        {IF IsPanic(data_point) THEN [self |-> self, item |-> <<>>, panicked |-> TRUE]
         ELSE [self |-> [self EXCEPT !.data_point_num = self.data_point_num + 1],
               item |-> <<data_point>>, panicked |-> FALSE] :
         data_point \in
            {lib_DataPoint_new(params) :
                params \in {lib_generate(self.data_parameters, self.data_point_num)}}} : TRUE

(***************************************************************************)
(* SpecIterator: a DataGenerator made from a template, then next() called   *)
(* again and again                                                         *)
(***************************************************************************)
GeneratorSlots ==
    {<<[kind |-> "Sine", high |-> f32(500000)]>>,
     <<[kind |-> "Noise", high |-> f32(500000)]>>,
     <<[kind |-> "Sine", high |-> f32(824000)], [kind |-> "Sine", high |-> f32(176000)]>>,
     <<[kind |-> "Pulse", high |-> f32(500000)], [kind |-> "Triangle", high |-> f32(500000)]>>}

RECURSIVE lib_with_oscillators(_, _, _)
lib_with_oscillators(self, slots, k) ==
    IF k > Len(slots) THEN self
    ELSE lib_with_oscillators(
             lib_with_oscillator(self,
                                 TypeDistribution(slots[k].kind, f32(250000), f32(750000)),
                                 0, slots[k].high),
             slots, k + 1)

\* DataParameters::new of lib.rs takes any sample rate, 0 as well
GeneratorSampleRates == {0, SampleRate}

GeneratorTemplates ==
    {with_seed_offset(
         lib_with_oscillators(
             lib_DataParameters_new(arguments[1], f32(50 * One),
                                    f32(200 * One), MaxSamples),
             arguments[2], 1),
         arguments[3]) :
        arguments \in GeneratorSampleRates \X GeneratorSlots \X (0 .. (Word - 1))}

\* calls: the number of calls of next() made so far, those that panicked
\* counted; panicked: the last call panicked
DataGeneratorNew(data_parameters) ==
    /\ fn.op = "none"
    /\ fn' = [op |-> "DataGenerator", self |-> DataGenerator_new(data_parameters),
              calls |-> 0, item |-> <<>>, panicked |-> FALSE]
    /\ UNCHANGED <<tpl, phase, seedArg, gen, oct, aud, fx>>

DataGeneratorNext ==
    /\ fn.op = "DataGenerator"
    /\ fn.calls <= MaxIndex
    /\ \E call \in {DataGenerator_next(fn.self)} :
         fn' = [fn EXCEPT !.self = call.self, !.item = call.item,
                         !.panicked = call.panicked, !.calls = fn.calls + 1]
    /\ UNCHANGED <<tpl, phase, seedArg, gen, oct, aud, fx>>

NextIterator ==
    \/ \E data_parameters \in GeneratorTemplates : DataGeneratorNew(data_parameters)
    \/ DataGeneratorNext

SpecIterator == Init /\ [][NextIterator]_vars
(***************************************************************************)
(* Properties                                                              *)
(***************************************************************************)
\* the sum of the amplitude-range maxima of the slots of a template, an f32 sum
\* in the order of the slots
MaximaSum(template) ==
    f32_sum([k \in 1 .. Len(template.oscillators) |->
                template.oscillators[k].amplitude_distribution.max])

\* C1: in every template the builder returned, the amplitude-range maxima of the
\* oscillator slots sum to at most 1, and a with_oscillator call whose slot would
\* take the sum above 1 panicked instead of returning a template.
C1_AmplitudeBudget ==
    /\ ~IsPanic(tpl) => MaximaSum(tpl) <= f32(One)
    /\ (/\ phase.call.op = "with_oscillator"
        /\ f32_add(phase.call.budget, phase.call.high) > f32(One))
          => IsPanic(tpl)

\* a second slot that does not fit into what the first left of the budget
C1_Witness ==
    /\ IsPanic(tpl)
    /\ phase.call.op = "with_oscillator"
    /\ phase.call.budget > 0
    /\ phase.call.budget <= f32(One)
    /\ phase.call.high <= f32(One)
    /\ f32_add(phase.call.budget, phase.call.high) > f32(One)

FrequencyBearingKinds == {"Sine", "Saw", "Pulse", "Triangle"}

\* C2: every DataPointParameters that generate returned holds at least one
\* included oscillator of kind sine, saw, pulse or triangle with amplitude > 0.
C2_FrequencyBearing ==
    \A w \in Workers :
        gen[w].pc \in {"generated", "rendered"} =>
            \E k \in 1 .. Len(gen[w].params.oscillators) :
                /\ gen[w].params.oscillators[k].oscillator_type.kind \in FrequencyBearingKinds
                /\ gen[w].params.oscillators[k].amplitude > 0

\* a result returned after a pass of the loop was rejected, noise included
C2_Witness ==
    /\ gen[1].pc = "generated"
    /\ gen[1].retried
    /\ \E k \in 1 .. Len(gen[1].params.oscillators) :
          gen[1].params.oscillators[k].oscillator_type.kind = "Noise"

CallerSeed == IF seedArg = NoSeed THEN 0 ELSE seedArg

\* C5: the seed offset of a template is hash(hash(s)) for the seed s last given to
\* with_seed_offset, s = 0 if it was never called, and the seed of datapoint i
\* is (hash(i) + offset) modulo the word size.
C5_SeedDerivation ==
    /\ ~IsPanic(tpl) => tpl.seed_offset = hash(hash(CallerSeed))
    /\ gen[1].pc \notin {"idle", "panicked"} =>
          gen[1].seed = (hash(gen[1].index) + hash(hash(CallerSeed))) % Word

\* a seed derived with wrap-around from a caller seed other than 0
C5_Witness ==
    /\ gen[1].pc = "oscillators"
    /\ seedArg > 0
    /\ hash(gen[1].index) + hash(hash(seedArg)) >= Word

\* the indices below num_samples at which the module's sample exceeds 1
ClippingAt(a) == {k \in 0 .. (a.num_samples - 1) : Abs(a.module[k + 1]) > f32(One)}
FirstClipping(a) == CHOOSE k \in ClippingAt(a) : \A j \in ClippingAt(a) : k <= j

\* C6: samples_from_module asks for the indices 0, 1, 2, ... in order; if a sample
\* below num_samples exceeds 1 in absolute value it returns Clipping(k) for the
\* smallest such k, asks for no index above k and returns no Audio; otherwise it
\* returns an Audio of exactly the first num_samples samples in order.
C6_ClippingOrAudio ==
    /\ \A k \in 1 .. Len(aud.requested) : aud.requested[k] = k - 1
    /\ aud.pc = "returned" =>
          IF ClippingAt(aud) # {}
          THEN /\ ~aud.result.ok
               /\ aud.result.clipping = FirstClipping(aud)
               /\ Len(aud.requested) = FirstClipping(aud) + 1
               /\ "audio" \notin DOMAIN aud.result
          ELSE /\ aud.result.ok
               /\ Len(aud.result.audio.samples) = aud.num_samples
               /\ \A k \in 1 .. aud.num_samples :
                     aud.result.audio.samples[k] = aud.module[k]

\* Clipping(1) after a first sample of exactly 1, with a later sample clipping too
C6_Witness ==
    /\ aud.pc = "returned"
    /\ aud.num_samples = 3
    /\ aud.module[1] = f32(One)
    /\ aud.module[2] = f32(One + 1)
    /\ aud.module[3] = f32(-(One + 1))
    /\ aud.result = [ok |-> FALSE, clipping |-> 1]

\* C7: DataPoint::new never returns Ok with a buffer that holds a sample of
\* absolute value above 1.
C7_NoClippedBuffer ==
    \A w \in Workers :
        gen[w].pc = "rendered" =>
            ~(/\ gen[w].data_point.ok
              /\ \E n \in 1 .. Len(gen[w].data_point.audio.samples) :
                    Abs(gen[w].data_point.audio.samples[n]) > f32(One))

\* C8: every frequency generate_frequencies emits lies in [min_frequency,
\* max_frequency], and the octave indices chosen for the note are pairwise
\* distinct.
C8_AllWithinBounds ==
    oct.pc = "returned" =>
        /\ \A k \in 1 .. Len(oct.frequencies) :
              /\ oct.frequencies[k] >= oct.params.min_frequency
              /\ oct.frequencies[k] <= oct.params.max_frequency
        /\ \A i \in 1 .. Len(oct.frame.octaves), j \in 1 .. Len(oct.frame.octaves) :
              i # j => oct.frame.octaves[i] # oct.frame.octaves[j]

\* the octave copy note * 2^k of a note: the exponent of the f32 moved by k
OctaveCopy(note, k) == note + k * (2 ^ 23)

\* most octaves between a note and its base octave
OctaveSpan == 30

\* the base octave of a note: its lowest octave copy that is >= min_frequency
BaseOctave(note, min_frequency) ==
    OctaveCopy(note,
               CHOOSE k \in -OctaveSpan .. OctaveSpan :
                   /\ OctaveCopy(note, k) >= min_frequency
                   /\ OctaveCopy(note, k - 1) < min_frequency)

\* C9: the first frequency emitted for the root is the base octave, the lowest
\* octave copy of the note that is >= min_frequency; the first frequency of any
\* other note is the base octave times 2^o for an octave index o >= 0 whose
\* doublings keep the frequency <= max_frequency.
C9_RootIsBaseOctave ==
    oct.pc = "returned" =>
        LET base == BaseOctave(oct.frequency, oct.params.min_frequency) IN
        IF oct.root THEN oct.frequencies[1] = base
        ELSE \E o \in 0 .. OctaveSpan :
                /\ o = 0 \/ OctaveCopy(base, o) <= oct.params.max_frequency
                /\ oct.frequencies[1] = OctaveCopy(base, o)

\* C10: OctaveParameters::new panics if max_frequency < 2 * min_frequency, if
\* min_frequency <= 0 or if a probability is outside [0, 1]; what it returns has
\* 0 < min_frequency and max_frequency >= 2 * min_frequency.
C10_OctaveValidation ==
    oct.pc # "start" =>
        /\ (\/ oct.args.max_frequency < f32_mul(f32(2 * One), oct.args.min_frequency)
            \/ oct.args.min_frequency <= 0
            \/ oct.args.add_root_octave_probability < 0
            \/ oct.args.add_root_octave_probability > ProbOne
            \/ oct.args.add_other_octave_probability < 0
            \/ oct.args.add_other_octave_probability > ProbOne)
              => IsPanic(oct.params)
        /\ ~IsPanic(oct.params) =>
              /\ 0 < oct.params.min_frequency
              /\ oct.params.max_frequency >= f32_mul(f32(2 * One), oct.params.min_frequency)

\* valid probabilities and a positive minimum, but less than an octave of room
C10_Witness ==
    /\ oct.pc = "panicked"
    /\ oct.args.add_root_octave_probability = 50
    /\ oct.args.add_other_octave_probability = ProbOne
    /\ oct.args.min_frequency > 0
    /\ oct.args.max_frequency >= oct.args.min_frequency
    /\ oct.args.max_frequency < f32_mul(f32(2 * One), oct.args.min_frequency)


\* C11: ChordType::frequencies(root) yields num_notes() values, one more than the
\* chord has multipliers: the root first, then root * multiplier for each
\* multiplier in the order of the table.
C11_ChordFrequencies ==
    fn.op = "frequencies" =>
        /\ fn.num_notes = Len(fn.self.offsets) + 1
        /\ Len(fn.yielded) = fn.num_notes
        /\ fn.yielded[1] = fn.base_frequency
        /\ \A k \in 1 .. Len(fn.self.offsets) :
              fn.yielded[k + 1] = f32_mul(fn.base_frequency, fn.self.offsets[k])

\* a chord of two different multipliers, the larger one first in the table, on
\* the root 0.1 Hz: 0.1, 0.15 and 0.125 Hz as the f32 product gives them
C11_Witness ==
    /\ fn.op = "frequencies"
    /\ fn.self.offsets = <<f32(1500000), f32(1250000)>>
    /\ fn.base_frequency = f32(100000)
    /\ fn.yielded = <<f32(100000), f32(150000), f32(125000)>>

\* the largest absolute value of a non-empty buffer
MaxAbs(buffer) ==
    CHOOSE m \in {Abs(buffer[n]) : n \in 1 .. Len(buffer)} :
        \A n \in 1 .. Len(buffer) : Abs(buffer[n]) <= m

\* the iterations of the loop of apply_effects that applied a Normalize
NormalizeSteps ==
    {k \in 1 .. Len(fx.applied) : fx.effects[fx.applied[k]].kind = "Normalize"}

\* C12: Normalize leaves a silent non-empty buffer as it is; in any other
\* non-empty buffer every sample is divided by the largest absolute sample, and
\* the largest absolute sample of the result is exactly 1.
C12_Normalize ==
    \A k \in NormalizeSteps :
        LET before == fx.trace[k]
            after == fx.trace[k + 1]
        IN Len(before) > 0 =>
              IF \A n \in 1 .. Len(before) : before[n] = 0
              THEN after = before
              ELSE /\ Len(after) = Len(before)
                   /\ \A n \in 1 .. Len(before) :
                         after[n] = f32_div(before[n], MaxAbs(before))
                   /\ MaxAbs(after) = f32(One)

\* a buffer whose largest sample is negative and whose peak is not 1 was normalized
C12_Witness ==
    \E k \in NormalizeSteps :
        /\ fx.trace[k] = <<f32(250000), f32(-500000), 0>>
        /\ fx.trace[k + 1] = <<f32(500000), f32(-One), 0>>

\* C13: a Normalize applied straight after a Normalize to a buffer that was not
\* silent leaves the buffer as the first one left it.
C13_NormalizeIdempotent ==
    \A k \in NormalizeSteps :
        (/\ k + 1 \in NormalizeSteps
         /\ \E n \in 1 .. Len(fx.trace[k]) : fx.trace[k][n] # 0)
        => fx.trace[k + 2] = fx.trace[k + 1]

\* two Normalize in a row, the first of which changed the buffer
C13_Witness ==
    /\ fx.pc = "returned"
    /\ 1 \in NormalizeSteps
    /\ 2 \in NormalizeSteps
    /\ fx.trace[1] = <<f32(250000), f32(-500000)>>
    /\ fx.trace[2] # fx.trace[1]

\* s is t with some of its elements left out, by the kind of the effect
RECURSIVE IsSubsequence(_, _)
IsSubsequence(s, t) ==
    IF Len(s) = 0 THEN TRUE
    ELSE IF Len(t) = 0 THEN FALSE
    ELSE IF s[1].kind = t[1].effect_type_distribution.kind /\ IsSubsequence(Tail(s), Tail(t))
    THEN TRUE
    ELSE IsSubsequence(s, Tail(t))

\* C14: the effects included for a datapoint keep the order of the template's
\* effect list; apply_effects applies effect 1, 2, ... in that order to the one
\* buffer, each to the buffer as the effect before it left it, none twice and
\* none skipped, and returns what the last one left.
C14_EffectOrder ==
    /\ fx.pc # "start" => IsSubsequence(fx.effects, fx.distributions)
    /\ fx.pc \in {"apply", "returned"} =>
          /\ fx.applied = [k \in 1 .. (fx.next - 1) |-> k]
          /\ Len(fx.trace) = fx.next
          /\ fx.buffer = fx.trace[fx.next]
          /\ \A k \in 1 .. (fx.next - 1) :
                [buffer |-> fx.trace[k + 1]]
                    = apply_to_buffer(fx.effects[k], fx.trace[k], fx.signal_amplitude)
    /\ fx.pc = "returned" =>
          /\ fx.next = Len(fx.effects) + 1
          /\ [buffer |-> fx.buffer]
                = apply_effect_list(fx.effects, 1, [buffer |-> fx.trace[1]],
                                    fx.signal_amplitude)

\* a distortion and a Normalize were both applied, in an order that matters
C14_Witness ==
    /\ fx.pc = "returned"
    /\ Len(fx.effects) = 2
    /\ fx.effects[1].kind = "Distortion"
    /\ fx.effects[2].kind = "Normalize"
    /\ LET swapped == apply_effect_list(<<fx.effects[2], fx.effects[1]>>, 1,
                                        [buffer |-> fx.trace[1]], fx.signal_amplitude)
       IN ~IsPanic(swapped) /\ swapped.buffer # fx.buffer

\* C15: LogUniform::from_tuple((min, max)) fails exactly when min < 0 or
\* max < min; a range with 0 <= min <= max is accepted, its min replaced by the
\* epsilon if it is 0, and the value built has 0 < min <= max.
C15_FromTuple ==
    fn.op = "from_tuple" =>
        LET low == fn.range[1]
            high == fn.range[2]
        IN /\ IsPanic(fn.self) <=> (low < 0 \/ high < low)
           /\ ~IsPanic(fn.self) =>
                 /\ fn.self.min = (IF low = 0 THEN Epsilon ELSE low)
                 /\ fn.self.max = high
                 /\ 0 < fn.self.min
                 /\ fn.self.min <= fn.self.max

\* 1e-4, the tolerance of the round trip
Tolerance == f32(100)

\* map_value gave the coordinate back to within the tolerance
RoundTrips ==
    /\ "map" \in DOMAIN fn.back
    /\ Abs(f32_sub(fn.back.map, fn.map)) <= Tolerance

\* unmap gave the given end of the domain for the coordinates -1 and 1
EndsExact ==
    /\ fn.map = f32(-One) => fn.value = fn.self.min
    /\ fn.map = f32(One) => fn.value = fn.self.max

\* C16: for every LogUniform with min < max and every coordinate c,
\* map_value(unmap(c)) is c to within 1e-4, unmap(-1) is min and unmap(1) is max;
\* with min = max, unmap returns that value for every coordinate.
C16_RoundTrip ==
    fn.op = "map_value" =>
        IF fn.self.min = fn.self.max THEN fn.value = fn.self.min
        ELSE RoundTrips /\ EndsExact

\* no slot of the template is a sine, saw, pulse or triangle
NoFrequencySlot(template) ==
    \A k \in 1 .. Len(template.oscillators) :
        template.oscillators[k].oscillator_type_distribution.kind \notin FrequencyBearingKinds

\* C17: generate on a template without a frequency-bearing slot (noise slots only,
\* or no slot) panics at once: no seed is derived, no generator is created and
\* the resampling loop of DataPointParameters::new is never entered.
C17_RejectedBeforeLoop ==
    (/\ ~IsPanic(tpl)
     /\ NoFrequencySlot(tpl)
     /\ gen[1].pc # "idle")
    => /\ gen[1].pc = "panicked"
       /\ gen[1].seed = 0
       /\ gen[1].rng = 0
       /\ gen[1].oscillators = <<>>
       /\ ~gen[1].retried

\* generate was called on a template of two noise slots
C17_Witness ==
    /\ gen[1].pc = "panicked"
    /\ ~IsPanic(tpl)
    /\ Len(tpl.oscillators) = 2
    /\ NoFrequencySlot(tpl)

\* a probability outside (0, 1]
BadProbability(probability) == ~(probability > 0 /\ probability <= ProbOne)

\* arguments of DataParameters::new that the claim names as invalid
BadTemplateArguments(args) ==
    \/ args.frequency_range[1] >= args.frequency_range[2]
    \/ args.num_samples = 0
    \/ args.sample_rate = 0
    \/ args.frequency_std_dev_range[1] < 0
    \/ args.frequency_std_dev_range[2] < args.frequency_std_dev_range[1]
    \/ args.possible_chords = <<>>
    \/ \E k \in 1 .. Len(args.possible_chords) :
          args.possible_chords[k] \notin 0 .. (Len(CHORD_TYPES) - 1)

\* C19: DataParameters::new panics if the frequency range has min >= max, if
\* num_samples or sample_rate is 0, if the deviation range is negative or has
\* max < min, if the chord set is empty or holds an id that is no index of the
\* chord table; OscillatorDistribution::new and EffectDistribution::new panic if
\* the probability is not in (0, 1]. No template or part is built from them.
C19_RejectedWhenBuilt ==
    /\ (fn.op = "DataParameters::new" /\ BadTemplateArguments(fn.args))
          => IsPanic(fn.result)
    /\ (fn.op = "OscillatorDistribution::new" /\ BadProbability(fn.args.probability))
          => IsPanic(fn.result)
    /\ (fn.op = "EffectDistribution::new" /\ BadProbability(fn.args.probability))
          => IsPanic(fn.result)

\* arguments whose only fault is a chord id one past the end of the chord table
C19_Witness ==
    /\ fn.op = "DataParameters::new"
    /\ IsPanic(fn.result)
    /\ fn.args = [sample_rate |-> SampleRate,
                  frequency_range |-> <<f32(50 * One), f32(200 * One)>>,
                  frequency_std_dev_range |-> <<0, f32(10 * One)>>,
                  possible_chords |-> <<0, 3>>,
                  num_samples |-> MaxSamples]

\* the positions of a caller inside generate
Generating == {"oscillators", "chord", "note", "octaves", "push", "finish"}

\* C18: every call of generate on an accepted template returns: the resampling
\* loop and the loop that adds octaves both end, whatever accepted inclusion
\* probability and octave-duplication probability the template has.
C18_GenerateReturns ==
    (gen[1].pc \in Generating) ~> (gen[1].pc \in {"generated", "panicked"})

\* C20: the chord type of a generated datapoint is one of the template's chords;
\* its frequency list starts with the root and has at least one entry per note
\* of the chord, and exactly one entry for the single-note chord when the
\* probability of adding root octaves is 0.
C20_ChordAndFrequencies ==
    gen[1].pc = "generated" =>
        LET params == gen[1].params
            chord == CHORD_TYPES[params.chord_type + 1]
        IN /\ InSeq(tpl.possible_chords, params.chord_type)
           /\ Len(params.frequencies) >= num_notes(chord)
           /\ params.frequencies[1] = params.base_frequency
           /\ (num_notes(chord) = 1 /\ tpl.octave_parameters.add_root_octave_probability = 0)
                 => Len(params.frequencies) = 1

\* a fifth on a root below the octave range, with an octave copy added to a note
C20_Witness ==
    /\ gen[1].pc = "generated"
    /\ gen[1].params.chord_type = 2
    /\ gen[1].params.base_frequency = f32(50 * One)
    /\ Len(gen[1].params.frequencies) > 2

\* C21: a rendered DataPoint holds an audio buffer of exactly the template's
\* num_samples samples at the template's sample rate, and its label reports the
\* sample rate, sample count, chord type, base frequency and frequency list of
\* the DataPointParameters that generate returned and the audio was rendered from.
C21_AudioAndLabel ==
    gen[1].pc = "rendered" =>
        LET data_point == gen[1].data_point
            label == DataPointLabel_new(data_point.parameters)
        IN /\ data_point.ok
           /\ Len(data_point.audio.samples) = tpl.num_samples
           /\ data_point.audio.sample_rate = tpl.sample_rate
           /\ label.sample_rate = tpl.sample_rate
           /\ label.num_samples = Len(data_point.audio.samples)
           /\ label.chord_type = gen[1].chord_type
           /\ label.base_frequency = gen[1].base_frequency
           /\ label.frequencies = gen[1].frequencies
           /\ data_point.parameters = gen[1].params

\* a rendered major chord with an octave copy, after a Normalize
C21_Witness ==
    /\ gen[1].pc = "rendered"
    /\ gen[1].chord_type = 1
    /\ Len(gen[1].frequencies) > 3
    /\ Len(gen[1].params.effects) = 1
    /\ Len(gen[1].data_point.audio.samples) = MaxSamples

\* the field of the WAV spec that the first failing check of from_wav names
FirstUnsupported(file) ==
    IF file.channels # 1 THEN "Channels"
    ELSE IF file.bits_per_sample # 32 THEN "BitDepth"
    ELSE IF file.sample_format # "Float" THEN "SampleFormat"
    ELSE "none"

\* C22: for a file whose header WavReader::open has read, from_wav returns an
\* unsupported-spec error that names the offending field and its value whenever
\* the file is not mono, not 32 bits per sample or not float, the channels checked
\* first, then the bit depth, then the sample format; it returns an Audio only
\* when all three checks pass, and that Audio has the file's sample rate.
C22_FromWav ==
    (fn.op = "from_wav" /\ "missing" \notin DOMAIN fn.file) =>
        /\ (FirstUnsupported(fn.file) # "none") =>
              /\ "err" \in DOMAIN fn.result
              /\ fn.result.err = FirstUnsupported(fn.file)
              /\ fn.result.value =
                    (CASE fn.result.err = "Channels" -> fn.file.channels
                       [] fn.result.err = "BitDepth" -> fn.file.bits_per_sample
                       [] fn.result.err = "SampleFormat" -> fn.file.sample_format)
        /\ ("ok" \in DOMAIN fn.result) =>
              /\ FirstUnsupported(fn.file) = "none"
              /\ fn.result.audio.sample_rate = fn.file.sample_rate
              /\ fn.result.audio.samples = fn.file.samples

\* a stereo file of 16-bit integers is reported for its channels
C22_Witness ==
    /\ fn.op = "from_wav"
    /\ "missing" \notin DOMAIN fn.file
    /\ fn.file.channels = 2
    /\ fn.file.bits_per_sample = 16
    /\ fn.file.sample_format = "Int"
    /\ fn.result = [err |-> "Channels", value |-> 2]

\* datapoint k of the labels file has a WAV file that from_wav reads
Readable(path, k) ==
    LET data_point_name == path.labels[k][1] IN
    /\ data_point_name \in DOMAIN path.wav
    /\ FirstUnsupported(path.wav[data_point_name]) = "none"
    /\ ~path.wav[data_point_name].truncated

\* the label of datapoint k records another sample rate or sample count than its
\* WAV file has
Mismatched(path, k) ==
    LET file == path.wav[path.labels[k][1]]
        label == path.labels[k][2]
    IN /\ Readable(path, k)
       /\ \/ file.sample_rate # label.sample_rate
          \/ Len(file.samples) # label.num_samples

\* the failure report carries the name of the datapoint
NamesDataPoint(failure, data_point_name) ==
    /\ "context" \in DOMAIN failure
    /\ failure.context = data_point_name

\* C23: load_dir fails when the label of a datapoint records another sample rate
\* or sample count than its WAV file has, the failure names the mismatched
\* datapoint, and pairs are returned only when every label matches its audio.
C23_MismatchNamed ==
    (fn.op = "load_dir" /\ fn.path.labels_file = "parsed") =>
        LET path == fn.path
            bad == {k \in 1 .. Len(path.labels) :
                       ~Readable(path, k) \/ Mismatched(path, k)}
        IN /\ (\E k \in 1 .. Len(path.labels) : Mismatched(path, k)) =>
                 "ok" \notin DOMAIN fn.result
           /\ \A k \in bad :
                 (Mismatched(path, k) /\ \A j \in bad : k <= j) =>
                     NamesDataPoint(fn.result, path.labels[k][1])
           /\ ("ok" \in DOMAIN fn.result) =>
                 /\ Len(fn.result.pairs) = Len(path.labels)
                 /\ \A k \in 1 .. Len(path.labels) :
                       /\ fn.result.pairs[k].label = path.labels[k][2]
                       /\ fn.result.pairs[k].audio.sample_rate = path.labels[k][2].sample_rate
                       /\ Len(fn.result.pairs[k].audio.samples) = path.labels[k][2].num_samples

\* the sum of the amplitudes of the included oscillators, an f32 sum in the
\* order of the list
TotalAmplitude(parameters) ==
    f32_sum([k \in 1 .. Len(parameters.oscillators) |-> parameters.oscillators[k].amplitude])

\* C25: for every generated datapoint the nominal peak of the buffer before the
\* effects, (number of emitted frequencies x total amplitude of the included
\* oscillators) / (number of notes of the chord), is at most 1.
C25_NominalPeak ==
    gen[1].pc \in {"generated", "rendered"} =>
        f32_div(f32_mul(f32_ratio(Len(gen[1].params.frequencies), 1),
                        TotalAmplitude(gen[1].params)),
                f32_ratio(num_notes(CHORD_TYPES[gen[1].params.chord_type + 1]), 1))
            <= f32(One)

\* the included oscillators can be matched, in order, to slots of the template
\* whose amplitude range holds their amplitude
InSlots(oscillators, slots) ==
    \E slot \in [1 .. Len(oscillators) -> 1 .. Len(slots)] :
        /\ \A j, k \in 1 .. Len(oscillators) : j < k => slot[j] < slot[k]
        /\ \A k \in 1 .. Len(oscillators) :
              /\ slots[slot[k]].amplitude_distribution.min <= oscillators[k].amplitude
              /\ oscillators[k].amplitude <= slots[slot[k]].amplitude_distribution.max

\* C26: every sampled oscillator amplitude lies in the range [min, max] of its
\* slot, and the amplitudes of the included oscillators of every generated
\* DataPointParameters add up to at most 1.
C26_AmplitudeBudget ==
    \A w \in Workers :
        gen[w].pc \in {"generated", "rendered"} =>
            /\ InSlots(gen[w].params.oscillators, tpl.oscillators)
            /\ TotalAmplitude(gen[w].params) <= f32(One)

\* the datapoint of caller w was rendered from noise oscillators alone, without
\* effects
NoiseAlone(w) ==
    /\ gen[w].pc = "rendered"
    /\ gen[w].params.effects = <<>>
    /\ Len(gen[w].params.oscillators) > 0
    /\ \A k \in 1 .. Len(gen[w].params.oscillators) :
          gen[w].params.oscillators[k].oscillator_type.kind = "Noise"

\* the buffer is the one the same oscillators give at any other frequencies and
\* without a frequency walk
FrequencyFree(w) ==
    \A frequency \in {f32(50 * One), f32(150 * One)}, walk_seed \in RawDraws :
        gen[w].data_point.audio.samples =
            generate_from_oscillators(
                [gen[w].params EXCEPT
                    !.frequencies = [k \in 1 .. Len(gen[w].params.frequencies) |-> frequency],
                    !.frequency_std_dev = 0],
                [j \in 1 .. walk_draws(gen[w].params) |-> walk_seed])

\* every sample is at most what the writes of the buffer give when each noise
\* sample is 1: the amplitudes added in the order of the writes, one set for
\* every frequency, times 1 / the number of notes
WithinClamp(w) ==
    LET nosc == Len(gen[w].params.oscillators)
        peak == f32_mul(
                    f32_sum([j \in 1 .. (Len(gen[w].params.frequencies) * nosc) |->
                               gen[w].params.oscillators[1 + ((j - 1) % nosc)].amplitude]),
                    f32_div(f32(One),
                            f32_ratio(num_notes(CHORD_TYPES[gen[w].params.chord_type + 1]), 1)))
    IN \A n \in 1 .. Len(gen[w].data_point.audio.samples) :
          Abs(gen[w].data_point.audio.samples[n]) <= peak

\* C27: the output of a noise oscillator written to the buffer does not depend
\* on the note frequency or on the frequency walk, and each noise sample is
\* clamped to [-1, 1] before it is scaled by the amplitude and added.
C27_NoiseClamped ==
    NoiseAlone(1) => FrequencyFree(1) /\ WithinClamp(1)

\* C28: the reference amplitude given to every effect of a datapoint is the sum
\* of the amplitudes of its oscillators: one value for every effect of the
\* list, whatever the peak of the buffer is and whatever effect came before.
C28_ReferenceAmplitude ==
    fx.pc \in {"apply", "returned"} =>
        /\ Len(fx.references) = Len(fx.applied)
        /\ \A k \in 1 .. Len(fx.references) : fx.references[k] = f32_sum(fx.amplitudes)

\* a distortion that followed a normalisation was given the sum 0.5 although the
\* buffer it was applied to peaks at 1
C28_Witness ==
    /\ fx.pc = "returned"
    /\ Len(fx.applied) = 2
    /\ fx.effects[1].kind = "Normalize"
    /\ fx.effects[2].kind = "Distortion"
    /\ fx.amplitudes = <<f32(300000), f32(200000)>>
    /\ fx.references = <<f32(500000), f32(500000)>>
    /\ Abs(max_by_abs(fx.trace[2])) = f32(One)

\* floor(cutoff_freq / sample_rate * num_bins), in exact arithmetic, for a
\* cutoff that is a multiple of 1/16 Hz
CutoffBin(cutoff_freq, sample_rate, num_bins) ==
    LET sixteenths == f32_scaled(cutoff_freq, Hz, 1) IN
    IF sixteenths >= 0 THEN (sixteenths * num_bins) \div (sample_rate * Hz)
    ELSE -(((-sixteenths) * num_bins + sample_rate * Hz - 1) \div (sample_rate * Hz))

\* C29: low_pass sets to zero every bin of the spectrum whose index is at least
\* floor(cutoff_freq / sample_rate * num_bins) and leaves the bins below it as
\* they are before the inverse transform; the Audio returned has the number of
\* samples and the sample rate of the input, and the input is not modified.
C29_LowPass ==
    fn.op = "low_pass" =>
        LET spectrum == Audio_fft(fn.audio)
            bin == CutoffBin(fn.cutoff_freq, fn.audio.sample_rate, Len(spectrum))
        IN /\ fn.call.spectrum = spectrum
           /\ Len(fn.call.filtered) = Len(spectrum)
           /\ \A k \in 1 .. Len(spectrum) :
                 fn.call.filtered[k] = IF k - 1 >= bin THEN Complex_new(0, 0) ELSE spectrum[k]
           /\ fn.call.result = Audio_from_spectrum(fn.call.filtered, fn.audio.sample_rate)
           /\ Audio_num_samples(fn.call.result) = Audio_num_samples(fn.audio)
           /\ fn.call.result.sample_rate = fn.audio.sample_rate
           /\ fn.call.audio = fn.audio

\* C30: on a template with a sample rate above 0, the k-th call of next() on a
\* DataGenerator, counted from 0, returns Some of the datapoint generated and
\* rendered for index k; the counter is the number of calls made, also after a
\* call that returned a Clipping error, and None is never returned.
C30_InOrderRendered ==
    (fn.op = "DataGenerator" /\ fn.self.data_parameters.sample_rate # 0) =>
        /\ fn.self.data_point_num = fn.calls
        /\ fn.calls > 0 =>
              /\ Len(fn.item) = 1
              /\ fn.item = <<lib_DataPoint_new(lib_generate(fn.self.data_parameters,
                                                            fn.calls - 1))>>

\* a call after the first returned a Clipping error, the two sines at the top
\* of amplitude ranges that use up the budget, and the counter went on
C30_ClippingCounted ==
    /\ fn.op = "DataGenerator"
    /\ fn.calls > 1
    /\ fn.self.data_point_num = fn.calls
    /\ Len(fn.self.data_parameters.oscillators) = 2
    /\ ~fn.panicked
    /\ Len(fn.item) = 1
    /\ ~fn.item[1].ok
    /\ fn.item[1].clipping >= 0
====
